---- MODULE Spec2Model ----
(***************************************************************************)
(* Carsa loyalty program (carsa-contracts/programs/carsa): the Lokal token *)
(* ledger (mint, merchants, purchases with cashback, transfers, burns) and *)
(* the voucher staking pool (deposit, yield index, redemption).            *)
(*                                                                         *)
(* Amounts are u64 / u128 values of the program.  They are far wider than  *)
(* the integers of the model checker, so every amount is an exact natural  *)
(* number held as a little-endian sequence of limbs in base 10^3 with no   *)
(* leading zero limb (zero is the empty sequence).  Two amounts are equal  *)
(* exactly when their sequences are equal.                                 *)
(***************************************************************************)
EXTENDS Integers, Sequences, FiniteSets, TLC

\* `let v = e; body`: e is evaluated once and bound in the body
With(v, Body(_)) == Body(v)

\* ------------------------------------------------------------------------
\* Exact natural-number arithmetic on limb sequences
\* ------------------------------------------------------------------------

LimbBase == 10^3

RECURSIVE Trim(_)
Trim(s) ==
    IF s = <<>> THEN s
    ELSE IF s[Len(s)] = 0 THEN Trim(SubSeq(s, 1, Len(s) - 1)) ELSE s

RECURSIVE Big(_)
Big(n) == IF n = 0 THEN <<>> ELSE <<n % LimbBase>> \o Big(n \div LimbBase)

Zero == <<>>

Limb(a, i) == IF i <= Len(a) THEN a[i] ELSE 0

RECURSIVE AddFrom(_, _, _, _)
AddFrom(a, b, i, c) ==
    IF i > Len(a) /\ i > Len(b)
    THEN (IF c = 0 THEN <<>> ELSE <<c>>)
    ELSE With(Limb(a, i) + Limb(b, i) + c,
              LAMBDA s : <<s % LimbBase>> \o AddFrom(a, b, i + 1, s \div LimbBase))

BigAdd(a, b) ==
    IF a = <<>> THEN b ELSE IF b = <<>> THEN a ELSE AddFrom(a, b, 1, 0)

RECURSIVE LeqFrom(_, _, _)
LeqFrom(a, b, i) ==
    IF i = 0 THEN TRUE
    ELSE IF a[i] < b[i] THEN TRUE
    ELSE IF a[i] > b[i] THEN FALSE
    ELSE LeqFrom(a, b, i - 1)

BigLeq(a, b) == IF Len(a) # Len(b) THEN Len(a) < Len(b) ELSE LeqFrom(a, b, Len(a))

BigLt(a, b) == a # b /\ BigLeq(a, b)

RECURSIVE SubFrom(_, _, _, _)
SubFrom(a, b, i, borrow) ==
    IF i > Len(a) THEN <<>>
    ELSE With(a[i] - Limb(b, i) - borrow,
              LAMBDA d : IF d < 0 THEN <<d + LimbBase>> \o SubFrom(a, b, i + 1, 1)
                         ELSE <<d>> \o SubFrom(a, b, i + 1, 0))

\* a - b, for b <= a
BigSub(a, b) == IF b = <<>> THEN a ELSE Trim(SubFrom(a, b, 1, 0))

RECURSIVE MulLimbFrom(_, _, _, _)
MulLimbFrom(a, d, i, c) ==
    IF i > Len(a)
    THEN (IF c = 0 THEN <<>> ELSE <<c>>)
    ELSE With(a[i] * d + c,
              LAMBDA p : <<p % LimbBase>> \o MulLimbFrom(a, d, i + 1, p \div LimbBase))

BigMulLimb(a, d) ==
    IF d = 0 \/ a = <<>> THEN <<>>
    ELSE IF d = 1 THEN a
    ELSE MulLimbFrom(a, d, 1, 0)

ShiftUp(x) == IF x = <<>> THEN <<>> ELSE <<0>> \o x

RECURSIVE MulFrom(_, _)
\* a * b, by the limbs of a
MulFrom(a, b) ==
    IF a = <<>> THEN <<>>
    ELSE BigAdd(BigMulLimb(b, a[1]), ShiftUp(MulFrom(Tail(a), b)))

BigMul(a, b) ==
    IF a = <<>> \/ b = <<>> THEN <<>>
    ELSE IF Len(a) <= Len(b) THEN MulFrom(a, b) ELSE MulFrom(b, a)

RECURSIVE ShortDivFrom(_, _, _, _, _)
\* a / d for a one-limb divisor d: limbs i down to 1, r the running remainder,
\* q the quotient limbs found so far
ShortDivFrom(a, d, i, r, q) ==
    IF i = 0 THEN [q |-> Trim(q), r |-> Big(r)]
    ELSE With(r * LimbBase + a[i],
              LAMBDA cur : ShortDivFrom(a, d, i - 1, cur % d, <<cur \div d>> \o q))

RECURSIVE QuotLimb(_, _, _, _)
\* the largest d in lo..hi with b * d <= rem
QuotLimb(rem, b, lo, hi) ==
    IF lo = hi THEN lo
    ELSE With((lo + hi + 1) \div 2,
              LAMBDA mid : IF BigLeq(BigMulLimb(b, mid), rem)
                           THEN QuotLimb(rem, b, mid, hi)
                           ELSE QuotLimb(rem, b, lo, mid - 1))

RECURSIVE LongDivFrom(_, _, _, _, _)
\* schoolbook long division of a by b: limbs i down to 1, rem the running
\* remainder, q the quotient limbs found so far
LongDivFrom(a, b, i, rem, q) ==
    IF i = 0 THEN [q |-> Trim(q), r |-> rem]
    ELSE With(Trim(<<a[i]>> \o rem), LAMBDA cur :
         With(IF BigLt(cur, b) THEN 0 ELSE QuotLimb(cur, b, 1, LimbBase - 1), LAMBDA d :
              IF d = 0 THEN LongDivFrom(a, b, i - 1, cur, <<0>> \o q)
              ELSE LongDivFrom(a, b, i - 1, BigSub(cur, BigMulLimb(b, d)), <<d>> \o q)))

RECURSIVE LowZeros(_, _)
\* the number of zero limbs below the first non-zero limb of b, from limb i
LowZeros(b, i) == IF i <= Len(b) /\ b[i] = 0 THEN LowZeros(b, i + 1) ELSE i - 1

\* a / b for b = d * LimbBase^k with one limb d: drop k limbs, divide by d
ScaledDiv(a, d, k) ==
    With(ShortDivFrom(SubSeq(a, k + 1, Len(a)), d, Len(a) - k, 0, <<>>),
         LAMBDA h : [q |-> h.q, r |-> Trim(SubSeq(a, 1, k) \o h.r)])

\* quotient and remainder of a by b, for b # 0
DivMod(a, b) ==
    IF BigLt(a, b) THEN [q |-> <<>>, r |-> a]
    ELSE IF LowZeros(b, 1) = Len(b) - 1 THEN ScaledDiv(a, b[Len(b)], Len(b) - 1)
    ELSE LongDivFrom(a, b, Len(a), <<>>, <<>>)

BigDiv(a, b) == DivMod(a, b).q
BigMod(a, b) == DivMod(a, b).r

RECURSIVE BigSum(_, _)
\* the sum of f[x] over x in S
BigSum(f, S) ==
    IF S = {} THEN Zero
    ELSE With(CHOOSE y \in S : TRUE,
              LAMBDA x : BigAdd(f[x], BigSum(f, S \ {x})))

\* ------------------------------------------------------------------------
\* Integer widths and checked arithmetic (Rust u64 / u128)
\* ------------------------------------------------------------------------

Pow2_32  == BigMul(Big(65536), Big(65536))
Pow2_64  == BigMul(Pow2_32, Pow2_32)
Pow2_128 == BigMul(Pow2_64, Pow2_64)
U64_MAX  == BigSub(Pow2_64, Big(1))
U128_MAX == BigSub(Pow2_128, Big(1))

\* Option<T>
None == [some |-> FALSE]
Some(v) == [some |-> TRUE, v |-> v]
UnwrapOr(o, d) == IF o.some THEN o.v ELSE d

Bounded(v, max) == IF BigLeq(v, max) THEN Some(v) ELSE None

\* checked_add / checked_sub / checked_mul / checked_div: None on overflow,
\* underflow or division by zero
CheckedAdd(a, b, max) == Bounded(BigAdd(a, b), max)
CheckedSub(a, b) == IF BigLeq(b, a) THEN Some(BigSub(a, b)) ELSE None
CheckedMul(a, b, max) == Bounded(BigMul(a, b), max)
CheckedDiv(a, b) == IF b = Zero THEN None ELSE Some(BigDiv(a, b))

\* u64::try_from(u128)
TryFromU128(v) == Bounded(v, U64_MAX)

\* `v as u64` on a u128: the low 64 bits
AsU64(v) == BigMod(v, Pow2_64)

\* ------------------------------------------------------------------------
\* Program constants
\* ------------------------------------------------------------------------

TOKEN_UNIT          == Big(1000000000)                  \* 10^9 base units per token
TOKEN_TO_FIAT_RATE  == Big(1000)
BPS_DENOMINATOR     == Big(10000)
MAX_PURCHASE_AMOUNT == Big(1000000000)
MAX_MINT_AMOUNT     == BigMul(Big(10000), TOKEN_UNIT)
MAX_TRANSFER_AMOUNT == BigMul(Big(10000), TOKEN_UNIT)
MAX_REDEMPTION_AMOUNT == BigMul(Big(5000), TOKEN_UNIT)
MAX_CASHBACK_RATE   == 10000
MAX_NAME_LEN        == 32
MAX_CATEGORY_LEN    == 16
MAX_MEMO_LEN        == 64
MAX_APY_BASIS_POINTS == 10000
REWARD_INDEX_SCALE  == BigMul(Big(1000000), Big(1000000))  \* 10^12

\* ------------------------------------------------------------------------
\* Identities
\* ------------------------------------------------------------------------

Wallets        == {"alice", "bob", "mira"}
Customers      == {"alice", "bob"}
MerchantOwners == {"mira", "bob"}
UpdateAuthority == "admin"
PoolAuthority  == "pool_admin"
PoolDelegate   == "pool_delegate"
VaultAuthority == "pool_vault_authority"
\* token accounts of the Lokal mint: one named by each owner, a second one of
\* alice, and the vault of the pool
Vault          == "vault"
Savings        == "alice_savings"
Holders        == Wallets \cup {Savings, Vault}
TokenOwner(acct) ==
    IF acct = Vault THEN VaultAuthority
    ELSE IF acct = Savings THEN "alice" ELSE acct
TxIds          == {"t1"}

VARIABLES
    total_supply,   \* LokalMintConfig.total_supply
    token_amount,   \* TokenAccount.amount of every token account
    merchants,      \* MerchantAccount by owner (PDA seeds [MERCHANT_SEED, owner])
    purchases,      \* PurchaseTransaction by <<customer, transaction_id>>
    transfers,      \* TokenTransfer by <<sender, transaction_id>>
    redemptions,    \* TokenRedemption by <<customer, merchant, transaction_id>>
    pool,           \* PoolState
    stakes,         \* UserStakeRecord by user
    hist,           \* history: sums over the successful calls so far
    last            \* history: the last call and its result

vars == <<total_supply, token_amount, merchants, purchases, transfers,
          redemptions, pool, stakes, hist, last>>

\* the accounts a handler reads and writes
Accounts ==
    [total_supply |-> total_supply, token_amount |-> token_amount,
     merchants |-> merchants, purchases |-> purchases, transfers |-> transfers,
     redemptions |-> redemptions, pool |-> pool, stakes |-> stakes]

Ok(st) == [err |-> "Ok", st |-> st]
Err(e, st) == [err |-> e, st |-> st]

\* `?` on a Result: an Err returns at once, an Ok goes on with its state
Then(run, Rest(_)) == IF run.err # "Ok" THEN run ELSE Rest(run.st)

\* An instruction's account writes reach the ledger only when it returns Ok(()):
\* an Err from the handler (every `?` and `require!`) aborts the transaction.
CommitPartial(pre, run) == run.st
CommitStakeRecordKept(pre, run) ==
    IF run.err = "Ok" THEN run.st ELSE [pre EXCEPT !.stakes = run.st.stakes]
Commit(pre, run) == IF run.err = "Ok" THEN run.st ELSE pre

Apply(post) ==
    /\ total_supply' = post.total_supply
    /\ token_amount' = post.token_amount
    /\ merchants' = post.merchants
    /\ purchases' = post.purchases
    /\ transfers' = post.transfers
    /\ redemptions' = post.redemptions
    /\ pool' = post.pool
    /\ stakes' = post.stakes

\* ------------------------------------------------------------------------
\* Token-transfer service (SPL Token), as the handlers call it
\* ------------------------------------------------------------------------

\* token::transfer: the authority must own the source account (or be its
\* approved delegate), the source must hold the amount; a transfer from an
\* account to itself moves nothing
TokenTransfer(st, from, to, authority, approved, amount) ==
    IF authority # TokenOwner(from) /\ ~approved THEN Err("TokenOwnerMismatch", st)
    ELSE IF BigLt(st.token_amount[from], amount) THEN Err("TokenInsufficientFunds", st)
    ELSE IF from = to THEN Ok(st)
    ELSE With(CheckedAdd(st.token_amount[to], amount, U64_MAX), LAMBDA sum :
         IF ~sum.some THEN Err("TokenOverflow", st)
         ELSE Ok([st EXCEPT !.token_amount =
                    [@ EXCEPT ![from] = BigSub(@, amount), ![to] = sum.v]]))

TokenMintToTwice(st, to, amount) ==
    IF ~CheckedAdd(BigSum(st.token_amount, Holders), amount, U64_MAX).some
    THEN Err("TokenOverflow", st)
    ELSE Ok([st EXCEPT !.token_amount[to] = BigAdd(@, BigAdd(amount, amount))])

\* token::mint_to: the mint's supply (the sum of all accounts) is a u64
TokenMintTo(st, to, amount) ==
    IF ~CheckedAdd(BigSum(st.token_amount, Holders), amount, U64_MAX).some
    THEN Err("TokenOverflow", st)
    ELSE Ok([st EXCEPT !.token_amount[to] = BigAdd(@, amount)])

\* token::burn
TokenBurn(st, from, authority, amount) ==
    IF authority # TokenOwner(from) THEN Err("TokenOwnerMismatch", st)
    ELSE IF BigLt(st.token_amount[from], amount) THEN Err("TokenInsufficientFunds", st)
    ELSE Ok([st EXCEPT !.token_amount[from] = BigSub(@, amount)])

\* ------------------------------------------------------------------------
\* mint_lokal_tokens
\* ------------------------------------------------------------------------

MintLokalTokensHandler(st, destination, amount) ==
    IF ~BigLt(Zero, amount) THEN Err("InvalidMintAmount", st)
    ELSE IF ~BigLeq(amount, MAX_MINT_AMOUNT) THEN Err("MintAmountTooLarge", st)
    ELSE With(CheckedAdd(st.total_supply, amount, U64_MAX), LAMBDA sum :
         IF ~sum.some THEN Err("ArithmeticOverflow", st)
         ELSE TokenMintTo([st EXCEPT !.total_supply = sum.v], destination, amount))

MintLokalTokensRun(st, authority, destination, amount) ==
    IF authority # UpdateAuthority THEN Err("UpdateAuthorityMismatch", st)
    ELSE MintLokalTokensHandler(st, destination, amount)

\* ------------------------------------------------------------------------
\* register_merchant / update_merchant
\* ------------------------------------------------------------------------

\* `init` of the merchant PDA: creating an account that exists fails
InitIfNeededMerchantAccount(st, owner) ==
    IF owner \in DOMAIN st.merchants THEN Ok(st)
    ELSE Ok([st EXCEPT !.merchants = [o \in DOMAIN @ \cup {owner} |->
                IF o = owner
                THEN [merchant_wallet |-> "", name_len |-> 0, category_len |-> 0,
                      cashback_rate |-> 0, is_active |-> FALSE,
                      total_transactions |-> Zero,
                      total_rewards_distributed |-> Zero, total_volume |-> Zero]
                ELSE @[o]]])
InitMerchantAccount(st, owner) ==
    IF owner \in DOMAIN st.merchants THEN Err("AccountAlreadyInUse", st)
    ELSE Ok([st EXCEPT !.merchants = [o \in DOMAIN @ \cup {owner} |->
                IF o = owner
                THEN [merchant_wallet |-> "", name_len |-> 0, category_len |-> 0,
                      cashback_rate |-> 0, is_active |-> FALSE,
                      total_transactions |-> Zero,
                      total_rewards_distributed |-> Zero, total_volume |-> Zero]
                ELSE @[o]]])

RegisterMerchantHandler(st, merchant_owner, name_len, category_len, cashback_rate) ==
    IF ~(name_len <= MAX_NAME_LEN /\ name_len # 0) THEN Err("InvalidMerchantName", st)
    ELSE IF ~(category_len <= MAX_CATEGORY_LEN /\ category_len # 0)
         THEN Err("InvalidMerchantCategory", st)
    ELSE IF ~(cashback_rate <= MAX_CASHBACK_RATE) THEN Err("InvalidCashbackRate", st)
    ELSE Ok([st EXCEPT !.merchants[merchant_owner] =
                [merchant_wallet |-> merchant_owner,
                 name_len |-> name_len, category_len |-> category_len,
                 cashback_rate |-> cashback_rate, is_active |-> TRUE,
                 total_transactions |-> Zero,
                 total_rewards_distributed |-> Zero, total_volume |-> Zero]])

RegisterMerchantRun(st, merchant_owner, name_len, category_len, cashback_rate) ==
    Then(InitMerchantAccount(st, merchant_owner), LAMBDA created :
         RegisterMerchantHandler(created, merchant_owner, name_len,
                                 category_len, cashback_rate))

\* the `if let Some(rate)` branch of update_merchant
UpdateCashbackRateUnchecked(st, merchant, new_cashback_rate) ==
    IF ~new_cashback_rate.some THEN Ok(st)
    ELSE Ok([st EXCEPT !.merchants[merchant].cashback_rate = new_cashback_rate.v])
UpdateCashbackRate(st, merchant, new_cashback_rate) ==
    IF ~new_cashback_rate.some THEN Ok(st)
    ELSE IF ~(new_cashback_rate.v <= MAX_CASHBACK_RATE)
         THEN Err("InvalidCashbackRate", st)
    ELSE Ok([st EXCEPT !.merchants[merchant].cashback_rate = new_cashback_rate.v])

UpdateMerchantHandler(st, merchant, new_cashback_rate, is_active) ==
    Then(UpdateCashbackRate(st, merchant, new_cashback_rate), LAMBDA rated :
         IF is_active.some
         THEN Ok([rated EXCEPT !.merchants[merchant].is_active = is_active.v])
         ELSE Ok(rated))

UpdateMerchantRunAnyCaller(st, merchant_owner, merchant, new_cashback_rate, is_active) ==
    UpdateMerchantHandler(st, merchant, new_cashback_rate, is_active)

\* the merchant account is the one at the caller's seeds, a merchant being
\* keyed by its owner, and then its merchant_wallet is the caller
UpdateMerchantRun(st, merchant_owner, merchant, new_cashback_rate, is_active) ==
    IF merchant # merchant_owner THEN Err("ConstraintSeeds", st)
    ELSE IF st.merchants[merchant].merchant_wallet # merchant_owner
    THEN Err("MerchantOwnerMismatch", st)
    ELSE UpdateMerchantHandler(st, merchant, new_cashback_rate, is_active)

\* ------------------------------------------------------------------------
\* process_purchase
\* ------------------------------------------------------------------------

ZeroPurchaseRecord ==
    [customer |-> "", merchant |-> "", fiat_amount |-> Zero,
     redeemed_token_amount |-> Zero, total_value |-> Zero, reward_amount |-> Zero,
     cashback_rate |-> 0, used_tokens |-> FALSE, transaction_id |-> ""]

\* `init` of the record PDA (seeds: customer, transaction_id)
InitIfNeededPurchaseRecord(st, key) ==
    Ok([st EXCEPT !.purchases = [k \in DOMAIN @ \cup {key} |->
            IF k = key THEN ZeroPurchaseRecord ELSE @[k]]])
InitPurchaseRecord(st, key) ==
    IF key \in DOMAIN st.purchases THEN Err("AccountAlreadyInUse", st)
    ELSE Ok([st EXCEPT !.purchases = [k \in DOMAIN @ \cup {key} |->
                IF k = key THEN ZeroPurchaseRecord ELSE @[k]]])

\* Option<T>::and_then for the checked chains
AndThen(o, F(_)) == IF o.some THEN F(o.v) ELSE None

\* redeemed tokens in IDR: whole tokens times the rate (u64, checked)
TokenValueInIdr(redeemed_tokens) ==
    AndThen(CheckedDiv(redeemed_tokens, TOKEN_UNIT),
            LAMBDA whole : CheckedMul(whole, TOKEN_TO_FIAT_RATE, U64_MAX))

\* fiat_amount + token_value_in_idr (u64, checked)
TotalValue(fiat_amount, redeemed_tokens) ==
    AndThen(TokenValueInIdr(redeemed_tokens),
            LAMBDA token_value : CheckedAdd(fiat_amount, token_value, U64_MAX))

\* total_value * cashback_rate * 10^9 / 10_000 / 1_000 in u128 (checked)
RewardCalculationDivideFirst(total_value, cashback_rate) ==
    AndThen(CheckedMul(total_value, Big(cashback_rate), U128_MAX), LAMBDA a :
    AndThen(CheckedDiv(a, BPS_DENOMINATOR), LAMBDA b :
    AndThen(CheckedDiv(b, TOKEN_TO_FIAT_RATE), LAMBDA c :
            CheckedMul(c, TOKEN_UNIT, U128_MAX))))
RewardCalculationPerFiatUnit(total_value, cashback_rate) ==
    AndThen(CheckedMul(total_value, Big(cashback_rate), U128_MAX), LAMBDA a :
    AndThen(CheckedMul(a, TOKEN_UNIT, U128_MAX), LAMBDA b :
            CheckedDiv(b, BPS_DENOMINATOR)))
RewardCalculation(total_value, cashback_rate) ==
    AndThen(CheckedMul(total_value, Big(cashback_rate), U128_MAX), LAMBDA a :
    AndThen(CheckedMul(a, TOKEN_UNIT, U128_MAX), LAMBDA b :
    AndThen(CheckedDiv(b, BPS_DENOMINATOR), LAMBDA c :
            CheckedDiv(c, TOKEN_TO_FIAT_RATE))))

\* u64::try_from(reward_calculation)
RewardAmount(total_value, cashback_rate) ==
    AndThen(RewardCalculation(total_value, cashback_rate), TryFromU128)

\* the redemption branch: balance check, then customer -> merchant transfer
RedeemInPurchase(st, customer, cta, mta, redeemed_tokens) ==
    IF ~BigLt(Zero, redeemed_tokens) THEN Ok(st)
    ELSE IF ~BigLeq(redeemed_tokens, st.token_amount[cta])
         THEN Err("InsufficientBalance", st)
    ELSE TokenTransfer(st, cta, mta, customer, FALSE, redeemed_tokens)

\* the mint branch: total_supply, then mint_to the customer's token account
MintRewardOffLedger(st, cta, reward_amount) ==
    IF ~BigLt(Zero, reward_amount) THEN Ok(st)
    ELSE TokenMintTo(st, cta, reward_amount)
MintReward(st, cta, reward_amount) ==
    IF ~BigLt(Zero, reward_amount) THEN Ok(st)
    ELSE With(CheckedAdd(st.total_supply, reward_amount, U64_MAX), LAMBDA sum :
         IF ~sum.some THEN Err("ArithmeticOverflow", st)
         ELSE TokenMintTo([st EXCEPT !.total_supply = sum.v], cta, reward_amount))

\* the merchant statistics of one purchase: three checked adds in turn
MerchantAfterPurchaseVolumeAsReward(st, merchant, total_value, reward_amount) ==
    With(CheckedAdd(st.merchants[merchant].total_transactions, Big(1), U64_MAX),
         LAMBDA t :
    IF ~t.some THEN Err("ArithmeticOverflow", st) ELSE
    With([st EXCEPT !.merchants[merchant].total_transactions = t.v], LAMBDA st1 :
    With(CheckedAdd(st1.merchants[merchant].total_volume, total_value, U64_MAX),
         LAMBDA v :
    IF ~v.some THEN Err("ArithmeticOverflow", st1) ELSE
    With([st1 EXCEPT !.merchants[merchant].total_volume = v.v], LAMBDA st2 :
    With(CheckedAdd(st2.merchants[merchant].total_rewards_distributed,
                    total_value, U64_MAX), LAMBDA r :
    IF ~r.some THEN Err("ArithmeticOverflow", st2) ELSE
    Ok([st2 EXCEPT !.merchants[merchant].total_rewards_distributed = r.v]))))))
MerchantAfterPurchase(st, merchant, total_value, reward_amount) ==
    With(CheckedAdd(st.merchants[merchant].total_transactions, Big(1), U64_MAX),
         LAMBDA t :
    IF ~t.some THEN Err("ArithmeticOverflow", st) ELSE
    With([st EXCEPT !.merchants[merchant].total_transactions = t.v], LAMBDA st1 :
    With(CheckedAdd(st1.merchants[merchant].total_volume, total_value, U64_MAX),
         LAMBDA v :
    IF ~v.some THEN Err("ArithmeticOverflow", st1) ELSE
    With([st1 EXCEPT !.merchants[merchant].total_volume = v.v], LAMBDA st2 :
    With(CheckedAdd(st2.merchants[merchant].total_rewards_distributed,
                    reward_amount, U64_MAX), LAMBDA r :
    IF ~r.some THEN Err("ArithmeticOverflow", st2) ELSE
    Ok([st2 EXCEPT !.merchants[merchant].total_rewards_distributed = r.v]))))))

\* the writes to transaction_record
RecordPurchase(st, customer, merchant, fiat_amount, redeemed_tokens, total_value, reward_amount, transaction_id) ==
    Ok([st EXCEPT !.purchases[<<customer, transaction_id>>] =
            [customer |-> customer, merchant |-> merchant,
             fiat_amount |-> fiat_amount,
             redeemed_token_amount |-> redeemed_tokens,
             total_value |-> total_value,
             reward_amount |-> reward_amount,
             cashback_rate |-> st.merchants[merchant].cashback_rate,
             used_tokens |-> BigLt(Zero, redeemed_tokens),
             transaction_id |-> transaction_id]])

\* the handler from the reward calculation on, with total_value known
RewardAndRecord(st, customer, merchant, cta, fiat_amount, redeemed_tokens, total_value, transaction_id) ==
    With(RewardAmount(total_value, st.merchants[merchant].cashback_rate),
         LAMBDA reward_amount :
    IF ~reward_amount.some THEN Err("ArithmeticOverflow", st) ELSE
    Then(MintReward(st, cta, reward_amount.v), LAMBDA minted :
    Then(MerchantAfterPurchase(minted, merchant, total_value, reward_amount.v),
         LAMBDA counted :
    RecordPurchase(counted, customer, merchant, fiat_amount, redeemed_tokens,
                   total_value, reward_amount.v, transaction_id))))

ProcessPurchaseHandlerBelowMax(st, customer, merchant, cta, mta, fiat_amount, redeem_token_amount, transaction_id) ==
    IF ~BigLt(Zero, fiat_amount) THEN Err("InvalidPurchaseAmount", st)
    ELSE IF ~BigLt(fiat_amount, MAX_PURCHASE_AMOUNT)
         THEN Err("PurchaseAmountTooLarge", st)
    ELSE
    With(UnwrapOr(redeem_token_amount, Zero), LAMBDA redeemed_tokens :
    Then(RedeemInPurchase(st, customer, cta, mta, redeemed_tokens), LAMBDA moved :
    With(TotalValue(fiat_amount, redeemed_tokens), LAMBDA total_value :
    IF ~total_value.some THEN Err("ArithmeticOverflow", moved) ELSE
    RewardAndRecord(moved, customer, merchant, cta, fiat_amount, redeemed_tokens,
                    total_value.v, transaction_id))))
ProcessPurchaseHandler(st, customer, merchant, cta, mta, fiat_amount, redeem_token_amount, transaction_id) ==
    IF ~BigLt(Zero, fiat_amount) THEN Err("InvalidPurchaseAmount", st)
    ELSE IF ~BigLeq(fiat_amount, MAX_PURCHASE_AMOUNT)
         THEN Err("PurchaseAmountTooLarge", st)
    ELSE
    With(UnwrapOr(redeem_token_amount, Zero), LAMBDA redeemed_tokens :
    Then(RedeemInPurchase(st, customer, cta, mta, redeemed_tokens), LAMBDA moved :
    With(TotalValue(fiat_amount, redeemed_tokens), LAMBDA total_value :
    IF ~total_value.some THEN Err("ArithmeticOverflow", moved) ELSE
    RewardAndRecord(moved, customer, merchant, cta, fiat_amount, redeemed_tokens,
                    total_value.v, transaction_id))))

\* account validation (record `init`, then the merchant's is_active constraint),
\* then the handler
ProcessPurchaseRunAnyMerchant(st, customer, merchant, cta, mta, fiat_amount, redeem_token_amount, transaction_id) ==
    Then(InitPurchaseRecord(st, <<customer, transaction_id>>), LAMBDA created :
         ProcessPurchaseHandler(created, customer, merchant, cta, mta,
                                fiat_amount, redeem_token_amount, transaction_id))
ProcessPurchaseRun(st, customer, merchant, cta, mta, fiat_amount, redeem_token_amount, transaction_id) ==
    Then(InitPurchaseRecord(st, <<customer, transaction_id>>), LAMBDA created :
         IF ~created.merchants[merchant].is_active
         THEN Err("MerchantNotActive", created)
         ELSE ProcessPurchaseHandler(created, customer, merchant, cta, mta,
                                     fiat_amount, redeem_token_amount,
                                     transaction_id))

\* ------------------------------------------------------------------------
\* burn_tokens
\* ------------------------------------------------------------------------

BurnTokensHandlerSupplyKept(st, merchant_owner, acct, amount) ==
    IF ~BigLt(Zero, amount) THEN Err("InvalidMintAmount", st)
    ELSE IF ~BigLeq(amount, st.token_amount[acct]) THEN Err("InsufficientBalance", st)
    ELSE TokenBurn(st, acct, merchant_owner, amount)
BurnTokensHandler(st, merchant_owner, acct, amount) ==
    IF ~BigLt(Zero, amount) THEN Err("InvalidMintAmount", st)
    ELSE IF ~BigLeq(amount, st.token_amount[acct]) THEN Err("InsufficientBalance", st)
    ELSE With(CheckedSub(st.total_supply, amount), LAMBDA left :
         IF ~left.some THEN Err("ArithmeticOverflow", st)
         ELSE TokenBurn([st EXCEPT !.total_supply = left.v],
                        acct, merchant_owner, amount))

BurnTokensRun(st, merchant_owner, merchant, acct, amount) ==
    IF st.merchants[merchant].merchant_wallet # merchant_owner
    THEN Err("MerchantOwnerMismatch", st)
    ELSE IF TokenOwner(acct) # merchant_owner THEN Err("ConstraintRaw", st)
    ELSE BurnTokensHandler(st, merchant_owner, acct, amount)

\* ------------------------------------------------------------------------
\* transfer_tokens
\* ------------------------------------------------------------------------

InitTransferRecord(st, key) ==
    IF key \in DOMAIN st.transfers THEN Err("AccountAlreadyInUse", st)
    ELSE Ok([st EXCEPT !.transfers = [k \in DOMAIN @ \cup {key} |->
                IF k = key
                THEN [from |-> "", to |-> "", amount |-> Zero,
                      transaction_id |-> "", memo_len |-> 0]
                ELSE @[k]]])

TransferTokensHandlerAnyBalance(st, sender, sta, rta, amount, transaction_id, memo_len) ==
    IF ~BigLt(Zero, amount) THEN Err("InvalidTransferAmount", st)
    ELSE IF ~BigLeq(amount, MAX_TRANSFER_AMOUNT) THEN Err("TransferAmountTooLarge", st)
    ELSE IF ~(memo_len <= MAX_MEMO_LEN) THEN Err("InvalidMerchantName", st)
    ELSE Ok([st EXCEPT
               !.transfers[<<sender, transaction_id>>] =
                   [from |-> sender, to |-> TokenOwner(rta), amount |-> amount,
                    transaction_id |-> transaction_id, memo_len |-> memo_len],
               !.token_amount[rta] = BigAdd(@, amount)])
TransferTokensHandler(st, sender, sta, rta, amount, transaction_id, memo_len) ==
    IF ~BigLt(Zero, amount) THEN Err("InvalidTransferAmount", st)
    ELSE IF ~BigLeq(amount, MAX_TRANSFER_AMOUNT) THEN Err("TransferAmountTooLarge", st)
    ELSE IF ~(memo_len <= MAX_MEMO_LEN) THEN Err("InvalidMerchantName", st)
    ELSE IF ~BigLeq(amount, st.token_amount[sta]) THEN Err("InsufficientBalance", st)
    ELSE TokenTransfer(
            [st EXCEPT !.transfers[<<sender, transaction_id>>] =
                [from |-> sender, to |-> TokenOwner(rta), amount |-> amount,
                 transaction_id |-> transaction_id, memo_len |-> memo_len]],
            sta, rta, sender, FALSE, amount)

TransferTokensRun(st, sender, sta, rta, amount, transaction_id, memo_len) ==
    Then(InitTransferRecord(st, <<sender, transaction_id>>), LAMBDA created :
         IF TokenOwner(sta) # sender THEN Err("ConstraintRaw", created)
         ELSE IF rta = sta THEN Err("SelfTransferNotAllowed", created)
         ELSE TransferTokensHandler(created, sender, sta, rta, amount,
                                    transaction_id, memo_len))

\* ------------------------------------------------------------------------
\* redeem_tokens
\* ------------------------------------------------------------------------

InitIfNeededRedemptionRecord(st, key) ==
    IF key \in DOMAIN st.redemptions THEN Ok(st)
    ELSE Ok([st EXCEPT !.redemptions = [k \in DOMAIN @ \cup {key} |->
                IF k = key
                THEN [customer |-> "", merchant |-> "", token_amount |-> Zero,
                      fiat_value |-> Zero, discount_rate |-> 0,
                      transaction_id |-> ""]
                ELSE @[k]]])
InitRedemptionRecord(st, key) ==
    IF key \in DOMAIN st.redemptions THEN Err("AccountAlreadyInUse", st)
    ELSE Ok([st EXCEPT !.redemptions = [k \in DOMAIN @ \cup {key} |->
                IF k = key
                THEN [customer |-> "", merchant |-> "", token_amount |-> Zero,
                      fiat_value |-> Zero, discount_rate |-> 0,
                      transaction_id |-> ""]
                ELSE @[k]]])

\* the merchant statistics of one redemption: two checked adds in turn
MerchantAfterRedemption(st, merchant, fiat_value) ==
    With(CheckedAdd(st.merchants[merchant].total_transactions, Big(1), U64_MAX),
         LAMBDA t :
    IF ~t.some THEN Err("ArithmeticOverflow", st) ELSE
    With([st EXCEPT !.merchants[merchant].total_transactions = t.v], LAMBDA st1 :
    With(CheckedAdd(st1.merchants[merchant].total_volume, fiat_value, U64_MAX),
         LAMBDA v :
    IF ~v.some THEN Err("ArithmeticOverflow", st1) ELSE
    Ok([st1 EXCEPT !.merchants[merchant].total_volume = v.v]))))

RedeemTokensHandler(st, customer, merchant, cta, mta, token_amt, fiat_value, discount_rate, transaction_id) ==
    IF ~BigLt(Zero, token_amt) THEN Err("InvalidRedemptionAmount", st)
    ELSE IF ~BigLt(Zero, fiat_value) THEN Err("InvalidPurchaseAmount", st)
    ELSE IF ~BigLeq(token_amt, MAX_REDEMPTION_AMOUNT)
         THEN Err("RedemptionAmountTooLarge", st)
    ELSE IF ~(discount_rate <= MAX_CASHBACK_RATE) THEN Err("InvalidDiscountPercentage", st)
    ELSE IF ~BigLeq(token_amt, st.token_amount[cta]) THEN Err("InsufficientBalance", st)
    ELSE
    Then(MerchantAfterRedemption(st, merchant, fiat_value), LAMBDA counted :
         TokenTransfer(
            [counted EXCEPT !.redemptions[<<customer, merchant, transaction_id>>] =
                [customer |-> customer, merchant |-> merchant,
                 token_amount |-> token_amt, fiat_value |-> fiat_value,
                 discount_rate |-> discount_rate,
                 transaction_id |-> transaction_id]],
            cta, mta, customer, FALSE, token_amt))

RedeemTokensRunAnyDestination(st, customer, merchant, cta, mta, token_amt, fiat_value, discount_rate, transaction_id) ==
    Then(InitRedemptionRecord(st, <<customer, merchant, transaction_id>>),
         LAMBDA created :
         IF TokenOwner(cta) # customer THEN Err("ConstraintRaw", created)
         ELSE IF ~created.merchants[merchant].is_active
              THEN Err("RedemptionMerchantNotActive", created)
         ELSE RedeemTokensHandler(created, customer, merchant, cta, mta,
                                  token_amt, fiat_value, discount_rate,
                                  transaction_id))
RedeemTokensRun(st, customer, merchant, cta, mta, token_amt, fiat_value, discount_rate, transaction_id) ==
    Then(InitRedemptionRecord(st, <<customer, merchant, transaction_id>>),
         LAMBDA created :
         IF TokenOwner(cta) # customer THEN Err("ConstraintRaw", created)
         ELSE IF ~created.merchants[merchant].is_active
              THEN Err("RedemptionMerchantNotActive", created)
         ELSE IF TokenOwner(mta) # created.merchants[merchant].merchant_wallet
              THEN Err("ConstraintRaw", created)
         ELSE RedeemTokensHandler(created, customer, merchant, cta, mta,
                                  token_amt, fiat_value, discount_rate,
                                  transaction_id))

\* ------------------------------------------------------------------------
\* Voucher pool: initialize_pool / update_pool_config
\* ------------------------------------------------------------------------

PoolUsers == {"alice", "bob"}

ConfigValid(config) ==
    /\ BigLt(Zero, config.min_stake_amount)
    /\ BigLeq(config.min_stake_amount, config.max_stake_per_user)
    /\ config.apy_basis_points <= MAX_APY_BASIS_POINTS

UninitializedPool ==
    [initialized |-> FALSE, pool_authority |-> "", pool_delegate |-> "",
     config |-> [min_stake_amount |-> Zero, max_stake_per_user |-> Zero,
                 deposits_enabled |-> FALSE, withdrawals_enabled |-> FALSE,
                 apy_basis_points |-> 0],
     total_voucher_staked |-> Zero, total_sol_staked |-> Zero,
     total_yield_earned |-> Zero, total_stakers |-> Zero, reward_index |-> Zero]

InitializePoolHandler(st, pool_authority, pool_delegate, config) ==
    IF ~ConfigValid(config) THEN Err("InvalidAmount", st)
    ELSE Ok([st EXCEPT !.pool =
                [initialized |-> TRUE, pool_authority |-> pool_authority,
                 pool_delegate |-> pool_delegate, config |-> config,
                 total_voucher_staked |-> Zero, total_sol_staked |-> Zero,
                 total_yield_earned |-> Zero, total_stakers |-> Zero,
                 reward_index |-> Zero]])

InitializePoolRunAgain(st, pool_authority, pool_delegate, config) ==
    InitializePoolHandler(st, pool_authority, pool_delegate, config)
InitializePoolRun(st, pool_authority, pool_delegate, config) ==
    IF st.pool.initialized THEN Err("AccountAlreadyInUse", st)
    ELSE InitializePoolHandler(st, pool_authority, pool_delegate, config)

UpdatePoolConfigHandlerUnchecked(st, new_config) ==
    Ok([st EXCEPT !.pool.config = new_config])

UpdatePoolConfigHandler(st, new_config) ==
    IF ~ConfigValid(new_config) THEN Err("InvalidAmount", st)
    ELSE Ok([st EXCEPT !.pool.config = new_config])

UpdatePoolConfigRunAnyCaller(st, pool_authority, new_config) ==
    UpdatePoolConfigHandler(st, new_config)

UpdatePoolConfigRun(st, pool_authority, new_config) ==
    IF pool_authority # st.pool.pool_authority THEN Err("Unauthorized", st)
    ELSE UpdatePoolConfigHandler(st, new_config)

\* ------------------------------------------------------------------------
\* Voucher pool: deposit_voucher
\* ------------------------------------------------------------------------

ZeroStakeRecord ==
    [user |-> "", staked_amount |-> Zero, user_reward_index |-> Zero,
     total_yield_claimed |-> Zero]

\* `init_if_needed` of the stake PDA (seeds: pool, user)
InitIfNeededStakeRecord(st, user) ==
    IF user \in DOMAIN st.stakes THEN st
    ELSE [st EXCEPT !.stakes = [u \in DOMAIN @ \cup {user} |->
                IF u = user THEN ZeroStakeRecord ELSE @[u]]]

FirstStakeFromZero(st, user) ==
    IF st.stakes[user].staked_amount # Zero THEN Ok(st)
    ELSE With([st EXCEPT !.stakes[user].user = user,
                         !.stakes[user].user_reward_index = Zero,
                         !.stakes[user].total_yield_claimed = Zero], LAMBDA st1 :
         With(CheckedAdd(st.pool.total_stakers, Big(1), U64_MAX), LAMBDA n :
         IF ~n.some THEN Err("Overflow", st1)
         ELSE Ok([st1 EXCEPT !.pool.total_stakers = n.v])))

\* the first-stake branch of the handler
FirstStake(st, user) ==
    IF st.stakes[user].staked_amount # Zero THEN Ok(st)
    ELSE With([st EXCEPT !.stakes[user].user = user,
                         !.stakes[user].user_reward_index = st.pool.reward_index,
                         !.stakes[user].total_yield_claimed = Zero], LAMBDA st1 :
         With(CheckedAdd(st.pool.total_stakers, Big(1), U64_MAX), LAMBDA n :
         IF ~n.some THEN Err("Overflow", st1)
         ELSE Ok([st1 EXCEPT !.pool.total_stakers = n.v])))

StakeTransferOfPoolTotal(st, user, approved, amount, new_user_total) ==
    Then(TokenTransfer(st, user, Vault, st.pool.pool_delegate, approved, amount),
         LAMBDA moved :
    With(CheckedAdd(moved.pool.total_voucher_staked, amount, U64_MAX), LAMBDA total :
    IF ~total.some THEN Err("Overflow", moved)
    ELSE Ok([moved EXCEPT !.pool.total_voucher_staked = total.v,
                          !.stakes[user].staked_amount = total.v])))

\* the handler after the first-stake branch: transfer to the vault, totals
StakeTransfer(st, user, approved, amount, new_user_total) ==
    Then(TokenTransfer(st, user, Vault, st.pool.pool_delegate, approved, amount),
         LAMBDA moved :
    With(CheckedAdd(moved.pool.total_voucher_staked, amount, U64_MAX), LAMBDA total :
    IF ~total.some THEN Err("Overflow", moved)
    ELSE Ok([moved EXCEPT !.pool.total_voucher_staked = total.v,
                          !.stakes[user].staked_amount = new_user_total])))

DepositVoucherHandlerBelowMax(st, user, approved, amount) ==
    IF ~BigLt(Zero, amount) THEN Err("InvalidAmount", st)
    ELSE IF ~BigLeq(st.pool.config.min_stake_amount, amount) THEN Err("InvalidAmount", st)
    ELSE
    With(CheckedAdd(st.stakes[user].staked_amount, amount, U64_MAX),
         LAMBDA new_user_total :
    IF ~new_user_total.some THEN Err("Overflow", st)
    ELSE IF ~BigLt(new_user_total.v, st.pool.config.max_stake_per_user)
         THEN Err("ExceedsMaxStake", st)
    ELSE Then(FirstStake(st, user), LAMBDA first :
              StakeTransfer(first, user, approved, amount, new_user_total.v)))

DepositVoucherHandler(st, user, approved, amount) ==
    IF ~BigLt(Zero, amount) THEN Err("InvalidAmount", st)
    ELSE IF ~BigLeq(st.pool.config.min_stake_amount, amount) THEN Err("InvalidAmount", st)
    ELSE
    With(CheckedAdd(st.stakes[user].staked_amount, amount, U64_MAX),
         LAMBDA new_user_total :
    IF ~new_user_total.some THEN Err("Overflow", st)
    ELSE IF ~BigLeq(new_user_total.v, st.pool.config.max_stake_per_user)
         THEN Err("ExceedsMaxStake", st)
    ELSE Then(FirstStake(st, user), LAMBDA first :
              StakeTransfer(first, user, approved, amount, new_user_total.v)))

DepositVoucherRunUngated(st, user, pool_delegate, approved, amount) ==
    IF pool_delegate # st.pool.pool_delegate THEN Err("UnauthorizedDelegate", st)
    ELSE DepositVoucherHandler(InitIfNeededStakeRecord(st, user), user, approved, amount)

\* account validation (delegate and deposits_enabled constraints on the pool,
\* then the stake record's init_if_needed), then the handler
DepositVoucherRun(st, user, pool_delegate, approved, amount) ==
    IF pool_delegate # st.pool.pool_delegate THEN Err("UnauthorizedDelegate", st)
    ELSE IF ~st.pool.config.deposits_enabled THEN Err("DepositsDisabled", st)
    ELSE DepositVoucherHandler(InitIfNeededStakeRecord(st, user), user, approved, amount)

\* ------------------------------------------------------------------------
\* Voucher pool: record_yield
\* ------------------------------------------------------------------------

YieldPerTokenByBillion(sol_amount, total_voucher_staked) ==
    AndThen(CheckedMul(sol_amount, Big(1000000000), U128_MAX),
            LAMBDA scaled : CheckedDiv(scaled, total_voucher_staked))

\* sol_amount * 10^12 / total_voucher_staked in u128 (checked)
YieldPerToken(sol_amount, total_voucher_staked) ==
    AndThen(CheckedMul(sol_amount, REWARD_INDEX_SCALE, U128_MAX),
            LAMBDA scaled : CheckedDiv(scaled, total_voucher_staked))

AdvanceRewardIndexUnstaked(st, sol_amount) ==
    With(YieldPerToken(sol_amount,
                       IF BigLt(Zero, st.pool.total_voucher_staked)
                       THEN st.pool.total_voucher_staked ELSE Big(1)), LAMBDA ypt :
         IF ~ypt.some THEN Err("Overflow", st)
         ELSE With(CheckedAdd(st.pool.reward_index, ypt.v, U128_MAX), LAMBDA index :
              IF ~index.some THEN Err("Overflow", st)
              ELSE Ok([st EXCEPT !.pool.reward_index = index.v])))

AdvanceRewardIndexReplaced(st, sol_amount) ==
    IF ~BigLt(Zero, st.pool.total_voucher_staked) THEN Ok(st)
    ELSE With(YieldPerToken(sol_amount, st.pool.total_voucher_staked), LAMBDA ypt :
         IF ~ypt.some THEN Err("Overflow", st)
         ELSE Ok([st EXCEPT !.pool.reward_index = ypt.v]))

\* the `if total_voucher_staked > 0` branch
AdvanceRewardIndex(st, sol_amount) ==
    IF ~BigLt(Zero, st.pool.total_voucher_staked) THEN Ok(st)
    ELSE With(YieldPerToken(sol_amount, st.pool.total_voucher_staked), LAMBDA ypt :
         IF ~ypt.some THEN Err("Overflow", st)
         ELSE With(CheckedAdd(st.pool.reward_index, ypt.v, U128_MAX), LAMBDA index :
              IF ~index.some THEN Err("Overflow", st)
              ELSE Ok([st EXCEPT !.pool.reward_index = index.v])))

RecordYieldHandler(st, sol_amount) ==
    IF ~BigLt(Zero, sol_amount) THEN Err("InvalidAmount", st)
    ELSE
    With(CheckedAdd(st.pool.total_sol_staked, sol_amount, U64_MAX), LAMBDA sol :
    IF ~sol.some THEN Err("Overflow", st) ELSE
    With([st EXCEPT !.pool.total_sol_staked = sol.v], LAMBDA st1 :
    With(CheckedAdd(st1.pool.total_yield_earned, sol_amount, U64_MAX), LAMBDA yield :
    IF ~yield.some THEN Err("Overflow", st1) ELSE
    AdvanceRewardIndex([st1 EXCEPT !.pool.total_yield_earned = yield.v],
                       sol_amount))))

RecordYieldRun(st, pool_delegate, sol_amount) ==
    IF pool_delegate # st.pool.pool_delegate THEN Err("UnauthorizedDelegate", st)
    ELSE RecordYieldHandler(st, sol_amount)

\* ------------------------------------------------------------------------
\* Voucher pool: redeem_voucher
\* ------------------------------------------------------------------------

\* staked_amount * reward_index_diff / 10^12 in u128 (checked), then `as u64`
ClaimableYield(staked_amount, reward_index_diff) ==
    AndThen(CheckedMul(staked_amount, reward_index_diff, U128_MAX), LAMBDA product :
    AndThen(CheckedDiv(product, REWARD_INDEX_SCALE), LAMBDA quot :
            Some(AsU64(quot))))

LastStakeStillCounted(st, user) == Ok(st)

\* the `if staked_amount == 0` branch
LastStake(st, user) ==
    IF st.stakes[user].staked_amount # Zero THEN Ok(st)
    ELSE With(CheckedSub(st.pool.total_stakers, Big(1)), LAMBDA stakers :
         IF ~stakers.some THEN Err("Overflow", st)
         ELSE Ok([st EXCEPT !.pool.total_stakers = stakers.v]))

SettleRedemptionSnapshotKept(st, user, amount, claimable_yield) ==
    With(CheckedSub(st.pool.total_voucher_staked, amount), LAMBDA total :
    IF ~total.some THEN Err("Overflow", st) ELSE
    With([st EXCEPT !.pool.total_voucher_staked = total.v], LAMBDA st1 :
    With(CheckedSub(st1.stakes[user].staked_amount, amount), LAMBDA staked :
    IF ~staked.some THEN Err("Overflow", st1) ELSE
    With([st1 EXCEPT !.stakes[user].staked_amount = staked.v], LAMBDA st2 :
    With(CheckedAdd(st2.stakes[user].total_yield_claimed, claimable_yield, U64_MAX),
         LAMBDA claimed :
    IF ~claimed.some THEN Err("Overflow", st2) ELSE
    LastStake([st2 EXCEPT !.stakes[user].total_yield_claimed = claimed.v], user))))))

SettleRedemptionTotalKept(st, user, amount, claimable_yield) ==
    With(CheckedSub(st.stakes[user].staked_amount, amount), LAMBDA staked :
    IF ~staked.some THEN Err("Overflow", st) ELSE
    With([st EXCEPT !.stakes[user].staked_amount = staked.v,
                    !.stakes[user].user_reward_index = st.pool.reward_index],
         LAMBDA st2 :
    With(CheckedAdd(st2.stakes[user].total_yield_claimed, claimable_yield, U64_MAX),
         LAMBDA claimed :
    IF ~claimed.some THEN Err("Overflow", st2) ELSE
    LastStake([st2 EXCEPT !.stakes[user].total_yield_claimed = claimed.v], user))))

\* the handler after the vault transfer: totals, index snapshot, claimed yield
SettleRedemption(st, user, amount, claimable_yield) ==
    With(CheckedSub(st.pool.total_voucher_staked, amount), LAMBDA total :
    IF ~total.some THEN Err("Overflow", st) ELSE
    With([st EXCEPT !.pool.total_voucher_staked = total.v], LAMBDA st1 :
    With(CheckedSub(st1.stakes[user].staked_amount, amount), LAMBDA staked :
    IF ~staked.some THEN Err("Overflow", st1) ELSE
    With([st1 EXCEPT !.stakes[user].staked_amount = staked.v,
                     !.stakes[user].user_reward_index = st1.pool.reward_index],
         LAMBDA st2 :
    With(CheckedAdd(st2.stakes[user].total_yield_claimed, claimable_yield, U64_MAX),
         LAMBDA claimed :
    IF ~claimed.some THEN Err("Overflow", st2) ELSE
    LastStake([st2 EXCEPT !.stakes[user].total_yield_claimed = claimed.v], user))))))

RedeemVoucherHandlerPaysOther(st, user, amount) ==
    IF ~BigLt(Zero, amount) THEN Err("InvalidAmount", st)
    ELSE IF ~BigLeq(amount, st.stakes[user].staked_amount)
         THEN Err("InsufficientBalance", st)
    ELSE
    With(CheckedSub(st.pool.reward_index, st.stakes[user].user_reward_index),
         LAMBDA reward_index_diff :
    IF ~reward_index_diff.some THEN Err("Overflow", st) ELSE
    With(ClaimableYield(st.stakes[user].staked_amount, reward_index_diff.v),
         LAMBDA claimable_yield :
    IF ~claimable_yield.some THEN Err("Overflow", st) ELSE
    Then(TokenTransfer(st, Vault, "mira", VaultAuthority, FALSE, amount),
         LAMBDA moved : SettleRedemption(moved, user, amount, claimable_yield.v))))

RedeemVoucherHandler(st, user, amount) ==
    IF ~BigLt(Zero, amount) THEN Err("InvalidAmount", st)
    ELSE IF ~BigLeq(amount, st.stakes[user].staked_amount)
         THEN Err("InsufficientBalance", st)
    ELSE
    With(CheckedSub(st.pool.reward_index, st.stakes[user].user_reward_index),
         LAMBDA reward_index_diff :
    IF ~reward_index_diff.some THEN Err("Overflow", st) ELSE
    With(ClaimableYield(st.stakes[user].staked_amount, reward_index_diff.v),
         LAMBDA claimable_yield :
    IF ~claimable_yield.some THEN Err("Overflow", st) ELSE
    Then(TokenTransfer(st, Vault, user, VaultAuthority, FALSE, amount), LAMBDA moved :
         SettleRedemption(moved, user, amount, claimable_yield.v))))

RedeemVoucherRun(st, user, amount) ==
    IF ~st.pool.config.withdrawals_enabled THEN Err("WithdrawalsDisabled", st)
    ELSE IF st.stakes[user].user # user THEN Err("InvalidOwner", st)
    ELSE RedeemVoucherHandler(st, user, amount)

\* ------------------------------------------------------------------------
\* Bounds and input sets of the model
\* ------------------------------------------------------------------------

\* successful calls in one run; a run ends with its first failed call
MaxCalls == 4
MaxFailedCalls == 1

Tokens(n) == BigMul(Big(n), TOKEN_UNIT)
HalfToken == Big(500000000)

MintAuthorities == {UpdateAuthority, "alice"}
MintAmounts     == {Zero, Tokens(2), BigAdd(MAX_MINT_AMOUNT, Big(1))}
NameLens        == {0, 5, 33}
CategoryLens    == {0, 4, 17}
RegisterRates   == {0, 10000, 10001}
UpdateRates     == {None, Some(250), Some(10001)}
UpdateActive    == {None, Some(FALSE), Some(TRUE)}
FiatAmounts     == {Zero, Big(1000), Big(1500), BigAdd(MAX_PURCHASE_AMOUNT, Big(1))}
RedeemAmounts   == {None, Some(Zero), Some(BigAdd(Tokens(1), HalfToken))}
BurnAmounts     == {Zero, HalfToken, Tokens(2)}
TransferAmounts == {Zero, HalfToken, BigAdd(MAX_TRANSFER_AMOUNT, Big(1))}
MemoLens        == {5, 65}
RedemptionAmounts == {Zero, HalfToken, BigAdd(MAX_REDEMPTION_AMOUNT, Big(1))}
RedemptionFiat  == {Zero, Big(500)}
DiscountRates   == {500, 10001}

\* ------------------------------------------------------------------------
\* State machine of the ledger
\* ------------------------------------------------------------------------

NoCall == [op |-> "none", err |-> "Ok"]

InitHist ==
    [calls |-> 0, failed |-> 0,
     rewards_minted |-> Zero, admin_minted |-> Zero, burned |-> Zero,
     deactivated |-> {},
     credited |-> [u \in PoolUsers |-> Zero],
     entitled |-> [u \in PoolUsers |-> Zero],
     deposited |-> [u \in PoolUsers |-> Zero],
     withdrawn |-> [u \in PoolUsers |-> Zero],
     joined |-> [u \in PoolUsers |-> Zero],
     yields |-> <<>>]
\* rewards_minted, admin_minted: tokens minted by process_purchase and by
\* mint_lokal_tokens; burned: tokens burned by burn_tokens; deactivated: the
\* merchants update_merchant has set inactive at some time; credited[u]: the
\* claimable_yield redeem_voucher has credited to u; entitled[u]: the sum over
\* the yield events of u's stake at the event times the event's yield_per_token;
\* deposited[u]: the amounts deposit_voucher has staked for u; withdrawn[u]:
\* the amounts redeem_voucher has paid back to u; joined[u]: the
\* pool's reward_index when a deposit last took u's stake from 0; yields: the
\* sol_amount of every record_yield with every user's stake at that time

\* after initialize_lokal_mint: the config exists with total_supply = 0 and
\* every token account is empty
Init ==
    /\ total_supply = Zero
    /\ token_amount = [h \in Holders |-> Zero]
    /\ merchants = <<>>
    /\ purchases = <<>>
    /\ transfers = <<>>
    /\ redemptions = <<>>
    /\ pool = UninitializedPool
    /\ stakes = <<>>
    /\ hist = InitHist
    /\ last = NoCall

Counted(run, h) ==
    IF run.err = "Ok" THEN [h EXCEPT !.calls = @ + 1] ELSE [h EXCEPT !.failed = @ + 1]

\* the accounts the handler had written to when it returned
Dirty(pre, run) == {f \in DOMAIN pre : run.st[f] # pre[f]}

\* the tokens the call created / destroyed, by the balances of all accounts
Minted(pre, run) ==
    BigSub(BigSum(run.st.token_amount, Holders), BigSum(pre.token_amount, Holders))
Burned(pre, run) ==
    BigSub(BigSum(pre.token_amount, Holders), BigSum(run.st.token_amount, Holders))

\* the record of a call: its arguments and its result, and for a failed call
\* the accounts it had written to
Called(call, pre, run) ==
    IF run.err = "Ok" THEN call ELSE call @@ [dirty |-> Dirty(pre, run)]

\* what a replayed purchase names differently from the stored record
Renamed(record, merchant, fiat_amount, redeem_token_amount) ==
    {n \in {"merchant", "fiat_amount", "redeem_token_amount"} :
        \/ n = "merchant" /\ record.merchant # merchant
        \/ n = "fiat_amount" /\ record.fiat_amount # fiat_amount
        \/ n = "redeem_token_amount"
             /\ record.redeemed_token_amount # UnwrapOr(redeem_token_amount, Zero)}

\* Each Commit step takes the result `run` of one instruction on the accounts
\* of the current state: its writes reach the ledger when it is Ok, and the
\* history records the call.

CommitMintLokalTokens(run, authority, destination, amount) ==
    /\ Apply(Commit(Accounts, run))
    /\ hist' = IF run.err = "Ok"
               THEN [Counted(run, hist) EXCEPT !.admin_minted =
                        BigAdd(@, Minted(Accounts, run))]
               ELSE Counted(run, hist)
    /\ last' = Called([op |-> "mint_lokal_tokens", err |-> run.err,
                       authority |-> authority, destination |-> destination,
                       amount |-> amount], Accounts, run)

CommitRegisterMerchant(run, merchant_owner, name_len, category_len, cashback_rate) ==
    /\ Apply(Commit(Accounts, run))
    /\ hist' = Counted(run, hist)
    /\ last' = Called([op |-> "register_merchant", err |-> run.err,
                       merchant |-> merchant_owner, name_len |-> name_len,
                       category_len |-> category_len,
                       cashback_rate |-> cashback_rate], Accounts, run)

CommitUpdateMerchant(run, merchant_owner, merchant, new_cashback_rate, is_active) ==
    /\ Apply(Commit(Accounts, run))
    /\ hist' = IF run.err = "Ok" /\ is_active = Some(FALSE)
               THEN [Counted(run, hist) EXCEPT !.deactivated = @ \cup {merchant}]
               ELSE Counted(run, hist)
    /\ last' = Called([op |-> "update_merchant", err |-> run.err,
                       merchant_owner |-> merchant_owner, merchant |-> merchant,
                       new_cashback_rate |-> new_cashback_rate,
                       is_active |-> is_active], Accounts, run)

CommitProcessPurchase(run, customer, merchant, cta, mta, fiat_amount, redeem_token_amount, transaction_id) ==
    /\ Apply(Commit(Accounts, run))
    /\ hist' = IF run.err = "Ok"
               THEN [Counted(run, hist) EXCEPT !.rewards_minted =
                        BigAdd(@, Minted(Accounts, run))]
               ELSE Counted(run, hist)
    /\ last' = IF run.err = "Ok"
               THEN [op |-> "process_purchase", err |-> "Ok",
                     customer |-> customer, merchant |-> merchant,
                     cta |-> cta, mta |-> mta, fiat_amount |-> fiat_amount,
                     redeem_token_amount |-> redeem_token_amount,
                     transaction_id |-> transaction_id]
               ELSE IF <<customer, transaction_id>> \in DOMAIN purchases
               THEN [op |-> "process_purchase", err |-> run.err,
                     customer |-> customer, merchant |-> merchant,
                     cta |-> cta, mta |-> mta, fiat_amount |-> fiat_amount,
                     redeem_token_amount |-> redeem_token_amount,
                     transaction_id |-> transaction_id,
                     dirty |-> Dirty(Accounts, run), replay |-> TRUE,
                     renamed |-> Renamed(purchases[<<customer, transaction_id>>],
                                         merchant, fiat_amount, redeem_token_amount)]
               ELSE [op |-> "process_purchase", err |-> run.err,
                     customer |-> customer, merchant |-> merchant,
                     cta |-> cta, mta |-> mta, fiat_amount |-> fiat_amount,
                     redeem_token_amount |-> redeem_token_amount,
                     transaction_id |-> transaction_id,
                     dirty |-> Dirty(Accounts, run), replay |-> FALSE]

CommitBurnTokens(run, merchant_owner, merchant, acct, amount) ==
    /\ Apply(Commit(Accounts, run))
    /\ hist' = IF run.err = "Ok"
               THEN [Counted(run, hist) EXCEPT !.burned =
                        BigAdd(@, Burned(Accounts, run))]
               ELSE Counted(run, hist)
    /\ last' = Called([op |-> "burn_tokens", err |-> run.err,
                       merchant_owner |-> merchant_owner, merchant |-> merchant,
                       holder |-> acct, amount |-> amount], Accounts, run)

CommitTransferTokens(run, sender, sta, rta, amount, transaction_id, memo_len) ==
    /\ Apply(Commit(Accounts, run))
    /\ hist' = Counted(run, hist)
    /\ last' = Called([op |-> "transfer_tokens", err |-> run.err,
                       sender |-> sender, sta |-> sta, rta |-> rta,
                       amount |-> amount, transaction_id |-> transaction_id,
                       memo_len |-> memo_len], Accounts, run)

CommitRedeemTokens(run, customer, merchant, cta, mta, token_amt, fiat_value, discount_rate, transaction_id) ==
    /\ Apply(Commit(Accounts, run))
    /\ hist' = Counted(run, hist)
    /\ last' = Called([op |-> "redeem_tokens", err |-> run.err,
                       customer |-> customer, merchant |-> merchant,
                       cta |-> cta, mta |-> mta, token_amount |-> token_amt,
                       fiat_value |-> fiat_value, discount_rate |-> discount_rate,
                       transaction_id |-> transaction_id], Accounts, run)

\* a run goes on while its bounds allow
Running == hist.calls < MaxCalls /\ hist.failed < MaxFailedCalls

MintLokalTokens ==
    /\ Running
    /\ \E a \in MintAuthorities, d \in Customers, amt \in MintAmounts :
          CommitMintLokalTokens(MintLokalTokensRun(Accounts, a, d, amt), a, d, amt)

RegisterMerchant ==
    /\ Running
    /\ \E o \in MerchantOwners, n \in NameLens, c \in CategoryLens,
          r \in RegisterRates :
          CommitRegisterMerchant(RegisterMerchantRun(Accounts, o, n, c, r), o, n, c, r)

UpdateMerchant ==
    /\ Running
    /\ \E o \in Wallets, m \in DOMAIN merchants, r \in UpdateRates,
          a \in UpdateActive :
          CommitUpdateMerchant(UpdateMerchantRun(Accounts, o, m, r, a), o, m, r, a)

ProcessPurchase ==
    /\ Running
    /\ \E c \in Customers, m \in DOMAIN merchants, cta \in Customers,
          mta \in MerchantOwners, f \in FiatAmounts, r \in RedeemAmounts,
          t \in TxIds :
          CommitProcessPurchase(
              ProcessPurchaseRun(Accounts, c, m, cta, mta, f, r, t),
              c, m, cta, mta, f, r, t)

BurnTokens ==
    /\ Running
    /\ \E o \in Wallets, m \in DOMAIN merchants, acct \in Wallets,
          amt \in BurnAmounts :
          CommitBurnTokens(BurnTokensRun(Accounts, o, m, acct, amt), o, m, acct, amt)

TransferTokens ==
    /\ Running
    /\ \E s \in Customers, sta \in Customers, rta \in Wallets \cup {Savings},
          amt \in TransferAmounts, t \in TxIds, memo \in MemoLens :
          CommitTransferTokens(
              TransferTokensRun(Accounts, s, sta, rta, amt, t, memo),
              s, sta, rta, amt, t, memo)

RedeemTokens ==
    /\ Running
    /\ \E c \in Customers, m \in DOMAIN merchants, mta \in MerchantOwners,
          amt \in RedemptionAmounts, f \in RedemptionFiat,
          d \in DiscountRates, t \in TxIds :
          CommitRedeemTokens(
              RedeemTokensRun(Accounts, c, m, c, mta, amt, f, d, t),
              c, m, c, mta, amt, f, d, t)

Next ==
    \/ MintLokalTokens
    \/ RegisterMerchant
    \/ UpdateMerchant
    \/ ProcessPurchase
    \/ BurnTokens
    \/ TransferTokens
    \/ RedeemTokens

Spec == Init /\ [][Next]_vars

\* ------------------------------------------------------------------------
\* The ledger near the u64 limit
\* ------------------------------------------------------------------------

\* successful calls in one run from a saturated ledger
MaxSaturatedCalls == 2

\* the largest multiple of MAX_MINT_AMOUNT below 2^64
MintedToTheLimit == BigMul(BigDiv(U64_MAX, MAX_MINT_AMOUNT), MAX_MINT_AMOUNT)
\* the largest multiple of the largest reward (10^15) below 2^64
MaxReward == BigMul(Big(1000000), TOKEN_UNIT)
RewardedToTheLimit == BigMul(BigDiv(U64_MAX, MaxReward), MaxReward)

RegisteredMerchant(owner, transactions, volume, rewards) ==
    [merchant_wallet |-> owner, name_len |-> 5, category_len |-> 4,
     cashback_rate |-> 10000, is_active |-> TRUE,
     total_transactions |-> transactions,
     total_rewards_distributed |-> rewards, total_volume |-> volume]

\* The supply at the limit: mint_lokal_tokens has minted MAX_MINT_AMOUNT to bob
\* as often as a u64 supply allows and two tokens to alice, and mira has
\* registered at a 100% rate.
InitSupplySaturated ==
    /\ total_supply = BigAdd(MintedToTheLimit, Tokens(2))
    /\ token_amount = [h \in Holders |->
                         IF h = "bob" THEN MintedToTheLimit
                         ELSE IF h = "alice" THEN Tokens(2) ELSE Zero]
    /\ merchants = [m \in {"mira"} |-> RegisteredMerchant("mira", Zero, Zero, Zero)]
    /\ hist = [InitHist EXCEPT !.admin_minted = BigAdd(MintedToTheLimit, Tokens(2))]

\* A merchant's reward counter at the limit: mira has sold purchases of the
\* largest reward (fiat 10^9 at 100%) as often as a u64 counter allows, under
\* transaction ids other than TxIds; the rewards were burned again but for two
\* tokens of alice.
InitCounterSaturated ==
    /\ total_supply = Tokens(2)
    /\ token_amount = [h \in Holders |-> IF h = "alice" THEN Tokens(2) ELSE Zero]
    /\ merchants = [m \in {"mira"} |->
                      RegisteredMerchant("mira", BigDiv(U64_MAX, MaxReward),
                          BigMul(BigDiv(U64_MAX, MaxReward), MAX_PURCHASE_AMOUNT),
                          RewardedToTheLimit)]
    /\ hist = [InitHist EXCEPT !.rewards_minted = RewardedToTheLimit,
                               !.burned = BigSub(RewardedToTheLimit, Tokens(2))]

InitSaturated ==
    /\ InitSupplySaturated \/ InitCounterSaturated
    /\ purchases = <<>>
    /\ transfers = <<>>
    /\ redemptions = <<>>
    /\ pool = UninitializedPool
    /\ stakes = <<>>
    /\ last = NoCall

SaturatedFiatAmounts ==
    {Zero, Big(1000), MAX_PURCHASE_AMOUNT, BigAdd(MAX_PURCHASE_AMOUNT, Big(1))}
SaturatedRedeemAmounts == {None, Some(BigAdd(Tokens(1), HalfToken)), Some(Tokens(3))}

RunningSaturated == hist.calls < MaxSaturatedCalls /\ hist.failed < MaxFailedCalls

SaturatedMint ==
    /\ RunningSaturated
    /\ \E d \in Customers, amt \in {Tokens(2), MAX_MINT_AMOUNT} :
          CommitMintLokalTokens(
              MintLokalTokensRun(Accounts, UpdateAuthority, d, amt),
              UpdateAuthority, d, amt)

SaturatedUpdate ==
    /\ RunningSaturated
    /\ \E m \in DOMAIN merchants, r \in {None, Some(0)}, a \in UpdateActive :
          CommitUpdateMerchant(UpdateMerchantRun(Accounts, m, m, r, a), m, m, r, a)

SaturatedPurchase ==
    /\ RunningSaturated
    /\ \E c \in Customers, m \in DOMAIN merchants, mta \in MerchantOwners,
          f \in SaturatedFiatAmounts, r \in SaturatedRedeemAmounts, t \in TxIds :
          CommitProcessPurchase(
              ProcessPurchaseRun(Accounts, c, m, c, mta, f, r, t),
              c, m, c, mta, f, r, t)

SaturatedTransfer ==
    /\ RunningSaturated
    /\ \E s \in Customers, rta \in Wallets, t \in TxIds :
          CommitTransferTokens(
              TransferTokensRun(Accounts, s, s, rta, HalfToken, t, 5),
              s, s, rta, HalfToken, t, 5)

NextSaturated ==
    \/ SaturatedMint
    \/ SaturatedUpdate
    \/ SaturatedPurchase
    \/ SaturatedTransfer

SpecSaturated == InitSaturated /\ [][NextSaturated]_vars

\* ------------------------------------------------------------------------
\* The ledger in use
\* ------------------------------------------------------------------------

\* The ledger after mira and bob have registered (at a 100% rate) and
\* mint_lokal_tokens has minted two tokens each to alice and to bob.
InitFunded ==
    /\ total_supply = Tokens(4)
    /\ token_amount = [h \in Holders |-> IF h \in Customers THEN Tokens(2) ELSE Zero]
    /\ merchants = [m \in MerchantOwners |-> RegisteredMerchant(m, Zero, Zero, Zero)]
    /\ purchases = <<>>
    /\ transfers = <<>>
    /\ redemptions = <<>>
    /\ pool = UninitializedPool
    /\ stakes = <<>>
    /\ hist = [InitHist EXCEPT !.admin_minted = Tokens(4)]
    /\ last = NoCall

\* successful and failed calls in one run of the ledger in use
MaxFundedCalls == 3
MaxFundedFailedCalls == 2

FundedTransferAmounts == {HalfToken, Tokens(3)}
FundedBurnAmounts == {HalfToken, Tokens(3)}

RunningFunded == hist.calls < MaxFundedCalls /\ hist.failed < MaxFundedFailedCalls

FundedUpdate ==
    /\ RunningFunded
    /\ \E m \in DOMAIN merchants, a \in {Some(FALSE), Some(TRUE)} :
          CommitUpdateMerchant(UpdateMerchantRun(Accounts, m, m, None, a),
                               m, m, None, a)

FundedPurchase ==
    /\ RunningFunded
    /\ \E c \in Customers, m \in DOMAIN merchants, t \in TxIds :
          CommitProcessPurchase(
              ProcessPurchaseRun(Accounts, c, m, c, m, Big(1000), None, t),
              c, m, c, m, Big(1000), None, t)

FundedTransfer ==
    /\ RunningFunded
    /\ \E s \in Customers, rta \in Customers \cup {Savings},
          amt \in FundedTransferAmounts, t \in TxIds :
          CommitTransferTokens(TransferTokensRun(Accounts, s, s, rta, amt, t, 5),
                               s, s, rta, amt, t, 5)

FundedRedeem ==
    /\ RunningFunded
    /\ \E c \in Customers, m \in DOMAIN merchants, mta \in MerchantOwners,
          t \in TxIds :
          CommitRedeemTokens(
              RedeemTokensRun(Accounts, c, m, c, mta, HalfToken, Big(500), 500, t),
              c, m, c, mta, HalfToken, Big(500), 500, t)

FundedBurn ==
    /\ RunningFunded
    /\ \E m \in DOMAIN merchants, amt \in FundedBurnAmounts :
          CommitBurnTokens(BurnTokensRun(Accounts, m, m, m, amt), m, m, m, amt)

NextFunded ==
    \/ FundedUpdate
    \/ FundedPurchase
    \/ FundedTransfer
    \/ FundedRedeem
    \/ FundedBurn

SpecFunded == InitFunded /\ [][NextFunded]_vars

\* ------------------------------------------------------------------------
\* State machine of the voucher pool
\* ------------------------------------------------------------------------

\* successful calls in one run of the pool
MaxPoolCalls == 5

\* configs at and beyond the bounds of the validation: max below min, max
\* equal to min with the largest apy, and an apy above the largest
BoundaryConfigs ==
    {[min_stake_amount |-> Big(100), max_stake_per_user |-> Big(c[1]),
      deposits_enabled |-> TRUE, withdrawals_enabled |-> TRUE,
      apy_basis_points |-> c[2]] :
        c \in {<<50, 500>>, <<100, MAX_APY_BASIS_POINTS>>,
                <<2000, MAX_APY_BASIS_POINTS + 1>>}}
PoolConfigs ==
    {[min_stake_amount |-> Big(mn), max_stake_per_user |-> Big(mx),
      deposits_enabled |-> d, withdrawals_enabled |-> w, apy_basis_points |-> 500] :
        mn \in {0, 100}, mx \in {1000, 2000}, d \in BOOLEAN, w \in BOOLEAN}
    \cup BoundaryConfigs
DepositAmounts == {Zero, Big(50), Big(100), Big(900)}
\* 2^63 lamports, a yield that fits u64
HugeYield == BigMul(Pow2_32, BigMul(Big(32768), Big(65536)))
YieldAmounts   == {Zero, Big(100), HugeYield}
VoucherAmounts == {Zero, Big(100), Big(1000)}

\* no pool yet; the users hold vouchers of the voucher mint, which is minted
\* outside the pool instructions
InitPool ==
    /\ total_supply = Zero
    /\ token_amount = [h \in Holders |-> IF h \in PoolUsers THEN Big(1000) ELSE Zero]
    /\ merchants = <<>>
    /\ purchases = <<>>
    /\ transfers = <<>>
    /\ redemptions = <<>>
    /\ pool = UninitializedPool
    /\ stakes = <<>>
    /\ hist = InitHist
    /\ last = NoCall

CommitPoolCall(op, run, pool_authority, config) ==
    /\ Apply(Commit(Accounts, run))
    /\ hist' = Counted(run, hist)
    /\ last' = Called([op |-> op, err |-> run.err,
                       pool_authority |-> pool_authority, config |-> config],
                      Accounts, run)

\* the stake of a user, none while the user has no stake record
StakedAmount(st, user) ==
    IF user \in DOMAIN st.stakes THEN st.stakes[user].staked_amount ELSE Zero

CommitDepositVoucher(run, user, pool_delegate, approved, amount) ==
    /\ Apply(Commit(Accounts, run))
    /\ hist' = IF run.err = "Ok"
               THEN [Counted(run, hist) EXCEPT
                       !.deposited[user] = BigAdd(@, amount),
                       !.joined[user] = IF StakedAmount(Accounts, user) = Zero
                                        THEN pool.reward_index ELSE @]
               ELSE Counted(run, hist)
    /\ last' = Called([op |-> "deposit_voucher", err |-> run.err, user |-> user,
                       pool_delegate |-> pool_delegate, approved |-> approved,
                       amount |-> amount], Accounts, run)

\* every staker's entitlement grows by stake * yield_per_token (scaled by 10^12)
Entitled(h, pre, sol_amount) ==
    IF ~BigLt(Zero, pre.pool.total_voucher_staked) THEN h
    ELSE [h EXCEPT !.entitled = [u \in PoolUsers |->
            IF u \in DOMAIN pre.stakes
            THEN BigAdd(@[u],
                    BigMul(pre.stakes[u].staked_amount,
                           YieldPerToken(sol_amount, pre.pool.total_voucher_staked).v))
            ELSE @[u]]]

CommitRecordYield(run, pool_delegate, sol_amount) ==
    /\ Apply(Commit(Accounts, run))
    /\ hist' = IF run.err = "Ok"
               THEN [Entitled(Counted(run, hist), Accounts, sol_amount) EXCEPT
                       !.yields = Append(@,
                           [sol_amount |-> sol_amount,
                            staked |-> [u \in PoolUsers |->
                                           StakedAmount(Accounts, u)]])]
               ELSE Counted(run, hist)
    /\ last' = Called([op |-> "record_yield", err |-> run.err,
                       pool_delegate |-> pool_delegate,
                       sol_amount |-> sol_amount], Accounts, run)

\* the claimable_yield of a successful redeem_voucher, as it was added to
\* total_yield_claimed
Credited(pre, run, user) ==
    BigSub(run.st.stakes[user].total_yield_claimed,
           pre.stakes[user].total_yield_claimed)

CommitRedeemVoucher(run, user, amount) ==
    /\ Apply(Commit(Accounts, run))
    /\ hist' = IF run.err = "Ok"
               THEN [Counted(run, hist) EXCEPT
                       !.credited[user] = BigAdd(@, Credited(Accounts, run, user)),
                       !.withdrawn[user] = BigAdd(@, amount)]
               ELSE Counted(run, hist)
    /\ last' = IF run.err = "Ok"
               THEN [op |-> "redeem_voucher", err |-> "Ok", user |-> user,
                     amount |-> amount,
                     claimable_yield |-> Credited(Accounts, run, user)]
               ELSE Called([op |-> "redeem_voucher", err |-> run.err,
                            user |-> user, amount |-> amount], Accounts, run)

RunningPool == hist.calls < MaxPoolCalls /\ hist.failed < MaxFailedCalls

InitializePool ==
    /\ RunningPool
    /\ \E config \in PoolConfigs :
          CommitPoolCall("initialize_pool",
              InitializePoolRun(Accounts, PoolAuthority, PoolDelegate, config),
              PoolAuthority, config)

UpdatePoolConfig ==
    /\ RunningPool
    /\ pool.initialized
    /\ \E a \in {PoolAuthority, PoolDelegate, "alice"}, config \in PoolConfigs :
          CommitPoolCall("update_pool_config",
              UpdatePoolConfigRun(Accounts, a, config), a, config)

DepositVoucher ==
    /\ RunningPool
    /\ pool.initialized
    /\ \E u \in PoolUsers, d \in {PoolDelegate, "alice"}, approved \in BOOLEAN,
          amt \in DepositAmounts :
          CommitDepositVoucher(DepositVoucherRun(Accounts, u, d, approved, amt),
                               u, d, approved, amt)

RecordYield ==
    /\ RunningPool
    /\ pool.initialized
    /\ \E d \in {PoolDelegate, "alice"}, sol \in YieldAmounts :
          CommitRecordYield(RecordYieldRun(Accounts, d, sol), d, sol)

RedeemVoucher ==
    /\ RunningPool
    /\ pool.initialized
    /\ \E u \in DOMAIN stakes, amt \in VoucherAmounts :
          CommitRedeemVoucher(RedeemVoucherRun(Accounts, u, amt), u, amt)

NextPool ==
    \/ InitializePool
    \/ UpdatePoolConfig
    \/ DepositVoucher
    \/ RecordYield
    \/ RedeemVoucher

SpecPool == InitPool /\ [][NextPool]_vars

\* ------------------------------------------------------------------------
\* State machine of the pool after initialize_pool(min_stake_amount 100,
\* max_stake_per_user 10000, apy_basis_points 1200), both flags set
\* ------------------------------------------------------------------------

StakingConfig ==
    [min_stake_amount |-> Big(100), max_stake_per_user |-> Big(10000),
     deposits_enabled |-> TRUE, withdrawals_enabled |-> TRUE,
     apy_basis_points |-> 1200]

InitStaked ==
    /\ total_supply = Zero
    /\ token_amount = [h \in Holders |-> IF h \in PoolUsers THEN Big(1000) ELSE Zero]
    /\ merchants = <<>>
    /\ purchases = <<>>
    /\ transfers = <<>>
    /\ redemptions = <<>>
    /\ pool = InitializePoolHandler([pool |-> UninitializedPool], PoolAuthority,
                                    PoolDelegate, StakingConfig).st.pool
    /\ stakes = <<>>
    /\ hist = InitHist
    /\ last = NoCall

\* successful calls in one run of the initialized pool
MaxStakedCalls == 6

StakedDepositAmounts == [alice |-> {Big(100), Big(500)}, bob |-> {Big(300)}]
StakedYieldAmounts   == {Big(400), Big(1000)}
StakedRedeemAmounts  == {Big(50), Big(100), Big(200), Big(300), Big(500)}

RunningStaked == hist.calls < MaxStakedCalls /\ hist.failed < MaxFailedCalls

StakedDeposit ==
    /\ RunningStaked
    /\ \E u \in PoolUsers : \E amt \in StakedDepositAmounts[u] :
          CommitDepositVoucher(
              DepositVoucherRun(Accounts, u, PoolDelegate, TRUE, amt),
              u, PoolDelegate, TRUE, amt)

StakedYield ==
    /\ RunningStaked
    /\ \E sol \in StakedYieldAmounts :
          CommitRecordYield(RecordYieldRun(Accounts, PoolDelegate, sol),
                            PoolDelegate, sol)

StakedRedeem ==
    /\ RunningStaked
    /\ \E u \in DOMAIN stakes, amt \in StakedRedeemAmounts :
          CommitRedeemVoucher(RedeemVoucherRun(Accounts, u, amt), u, amt)

NextStaked ==
    \/ StakedDeposit
    \/ StakedYield
    \/ StakedRedeem

SpecStaked == InitStaked /\ [][NextStaked]_vars

\* ------------------------------------------------------------------------
\* State machine of a pool with a high stake limit: alice holds a little more
\* than 4 voucher tokens (9 decimals), the delegate records yields up to 2^63
\* ------------------------------------------------------------------------

TopUpConfig ==
    [min_stake_amount |-> Big(100), max_stake_per_user |-> Tokens(10),
     deposits_enabled |-> TRUE, withdrawals_enabled |-> TRUE,
     apy_basis_points |-> 1200]

InitTopUp ==
    /\ total_supply = Zero
    /\ token_amount = [h \in Holders |->
                          IF h = "alice" THEN BigAdd(Tokens(4), Big(1000))
                          ELSE IF h \in PoolUsers THEN Big(1000) ELSE Zero]
    /\ merchants = <<>>
    /\ purchases = <<>>
    /\ transfers = <<>>
    /\ redemptions = <<>>
    /\ pool = InitializePoolHandler([pool |-> UninitializedPool], PoolAuthority,
                                    PoolDelegate, TopUpConfig).st.pool
    /\ stakes = <<>>
    /\ hist = InitHist
    /\ last = NoCall

\* successful calls in one run of this pool
MaxTopUpCalls == 4

TopUpDepositAmounts == [alice |-> {Big(100), Tokens(4)}, bob |-> {Big(300)}]
TopUpYieldAmounts   == {Big(1000), HugeYield}
TopUpRedeemAmounts  == {Big(100), Big(300)}

RunningTopUp == hist.calls < MaxTopUpCalls /\ hist.failed < MaxFailedCalls

TopUpDeposit ==
    /\ RunningTopUp
    /\ \E u \in PoolUsers : \E amt \in TopUpDepositAmounts[u] :
          CommitDepositVoucher(
              DepositVoucherRun(Accounts, u, PoolDelegate, TRUE, amt),
              u, PoolDelegate, TRUE, amt)

TopUpYield ==
    /\ RunningTopUp
    /\ \E sol \in TopUpYieldAmounts :
          CommitRecordYield(RecordYieldRun(Accounts, PoolDelegate, sol),
                            PoolDelegate, sol)

TopUpRedeem ==
    /\ RunningTopUp
    /\ \E u \in DOMAIN stakes, amt \in TopUpRedeemAmounts :
          CommitRedeemVoucher(RedeemVoucherRun(Accounts, u, amt), u, amt)

NextTopUp ==
    \/ TopUpDeposit
    \/ TopUpYield
    \/ TopUpRedeem

SpecTopUp == InitTopUp /\ [][NextTopUp]_vars

\* ------------------------------------------------------------------------
\* Two parties at a time: the ledger in use beside the staking pool
\* ------------------------------------------------------------------------

\* The ledger in use (mira and bob registered, two tokens each with alice and
\* bob) after initialize_pool with the staking config.
InitPairs ==
    /\ total_supply = Tokens(4)
    /\ token_amount = [h \in Holders |-> IF h \in Customers THEN Tokens(2) ELSE Zero]
    /\ merchants = [m \in MerchantOwners |-> RegisteredMerchant(m, Zero, Zero, Zero)]
    /\ purchases = <<>>
    /\ transfers = <<>>
    /\ redemptions = <<>>
    /\ pool = InitializePoolHandler([pool |-> UninitializedPool], PoolAuthority,
                                    PoolDelegate, StakingConfig).st.pool
    /\ stakes = <<>>
    /\ hist = [InitHist EXCEPT !.admin_minted = Tokens(4)]
    /\ last = NoCall

\* a purchase may redeem nothing, half a token, or two and a half tokens,
\* which is more than a customer holds at the start
PairsRedeemAmounts == {None, Some(HalfToken), Some(BigAdd(Tokens(2), HalfToken))}

\* successful calls in one run of the two parties
MaxPairsCalls == 4

RunningPairs == hist.calls < MaxPairsCalls /\ hist.failed < MaxFailedCalls

\* a purchase of 1000 that pays its redemption to the merchant's owner
PairsPurchase ==
    /\ RunningPairs
    /\ \E c \in Customers, m \in DOMAIN merchants, r \in PairsRedeemAmounts,
          t \in TxIds :
          CommitProcessPurchase(
              ProcessPurchaseRun(Accounts, c, m, c, m, Big(1000), r, t),
              c, m, c, m, Big(1000), r, t)

PairsRedeem ==
    /\ RunningPairs
    /\ \E c \in Customers, m \in DOMAIN merchants, t \in TxIds :
          CommitRedeemTokens(
              RedeemTokensRun(Accounts, c, m, c, m, HalfToken, Big(500), 500, t),
              c, m, c, m, HalfToken, Big(500), 500, t)

PairsDeposit ==
    /\ RunningPairs
    /\ \E u \in PoolUsers : \E amt \in StakedDepositAmounts[u] :
          CommitDepositVoucher(
              DepositVoucherRun(Accounts, u, PoolDelegate, TRUE, amt),
              u, PoolDelegate, TRUE, amt)

PairsWithdraw ==
    /\ RunningPairs
    /\ \E u \in DOMAIN stakes, amt \in {Big(100), Big(300)} :
          CommitRedeemVoucher(RedeemVoucherRun(Accounts, u, amt), u, amt)

NextPairs ==
    \/ PairsPurchase
    \/ PairsRedeem
    \/ PairsDeposit
    \/ PairsWithdraw

SpecPairs == InitPairs /\ [][NextPairs]_vars

\* ------------------------------------------------------------------------
\* Properties
\* ------------------------------------------------------------------------

\* the call of a step, as the step records it in last'
PurchaseSucceeds == last'.op = "process_purchase" /\ last'.err = "Ok"
PurchaseFails    == last'.op = "process_purchase" /\ last'.err # "Ok"
\* the record a successful purchase has written
NewRecord == purchases'[<<last'.customer, last'.transaction_id>>]
AllTokens(amounts) == BigSum(amounts, Holders)

\* C1 (as the code has it): in every reachable state total_supply is the
\* rewards minted by process_purchase plus the amounts minted by
\* mint_lokal_tokens minus the amounts burned by burn_tokens, exactly.
SupplyIsMintsMinusBurns ==
    BigAdd(total_supply, hist.burned) =
        BigAdd(hist.rewards_minted, hist.admin_minted)

\* C1 as stated: total_supply is the rewards minted by process_purchase minus
\* the amounts burned, exactly.
SupplyIsRewardsMinusBurns ==
    BigAdd(total_supply, hist.burned) = hist.rewards_minted

\* a burn has succeeded after both kinds of mint
SupplyAfterMintsAndBurn ==
    /\ last.op = "burn_tokens" /\ last.err = "Ok"
    /\ hist.rewards_minted # Zero
    /\ hist.admin_minted # Zero
    /\ hist.burned # Zero

\* C2: the claimable_yield credited by redeem_voucher, summed over all users,
\* never exceeds pool.total_yield_earned.
CreditedWithinYieldEarned ==
    BigLeq(BigSum(hist.credited, PoolUsers), pool.total_yield_earned)

\* C3: the claimable_yield credited to a user is at most the sum over the yield
\* events of (the user's stake at the event) * (the event's yield_per_token)
\* / REWARD_INDEX_SCALE.
CreditedWithinEntitlement ==
    \A u \in PoolUsers :
        BigLeq(BigMul(hist.credited[u], REWARD_INDEX_SCALE), hist.entitled[u])

\* a process_purchase whose (customer, transaction_id) record exists already
ReplayedPurchase ==
    /\ last'.op = "process_purchase"
    /\ IF last'.err = "Ok"
       THEN <<last'.customer, last'.transaction_id>> \in DOMAIN purchases
       ELSE last'.replay

\* C4: a process_purchase with the (customer, transaction_id) of an existing
\* record fails on the creation of the record and leaves the balances,
\* total_supply, the merchants and the stored records as they were, whatever
\* else it names.
ReplayChangesNothing ==
    [][ReplayedPurchase =>
          /\ last'.err = "AccountAlreadyInUse"
          /\ UNCHANGED <<token_amount, total_supply, merchants, purchases>>]_vars

\* a replay naming another merchant, fiat amount and redemption has failed
ReplayRenamedAll ==
    /\ last.op = "process_purchase" /\ last.err = "AccountAlreadyInUse"
    /\ last.replay
    /\ last.renamed = {"merchant", "fiat_amount", "redeem_token_amount"}

RewardIsFloor(reward, total_value, cashback_rate) ==
    /\ BigLeq(BigMul(reward, BigMul(BPS_DENOMINATOR, TOKEN_TO_FIAT_RATE)),
              BigMul(BigMul(total_value, Big(cashback_rate)), TOKEN_UNIT))
    /\ BigLt(BigMul(BigMul(total_value, Big(cashback_rate)), TOKEN_UNIT),
             BigMul(BigAdd(reward, Big(1)),
                    BigMul(BPS_DENOMINATOR, TOKEN_TO_FIAT_RATE)))

\* what the redemption of a purchase takes from customer_token_account
TakenFrom(cta, mta, redeemed_tokens) == IF mta = cta THEN Zero ELSE redeemed_tokens

RewardBoundaries ==
    [][PurchaseSucceeds =>
          /\ ( /\ merchants[last'.merchant].cashback_rate = 10000
               /\ last'.fiat_amount = Big(1000)
               /\ UnwrapOr(last'.redeem_token_amount, Zero) = Zero )
             => NewRecord.reward_amount = Big(1000000000)
          /\ merchants[last'.merchant].cashback_rate = 0
             => /\ NewRecord.reward_amount = Zero
                /\ total_supply' = total_supply
                /\ AllTokens(token_amount') = AllTokens(token_amount)
                /\ BigLeq(token_amount'[last'.cta], token_amount[last'.cta])
                /\ <<last'.customer, last'.transaction_id>> \notin DOMAIN purchases
                /\ merchants'[last'.merchant].total_transactions =
                      BigAdd(merchants[last'.merchant].total_transactions, Big(1))
                /\ merchants'[last'.merchant].total_volume =
                      BigAdd(merchants[last'.merchant].total_volume,
                             NewRecord.total_value)
                /\ merchants'[last'.merchant].total_rewards_distributed =
                      merchants[last'.merchant].total_rewards_distributed]_vars

\* both boundary purchases are on record
BothBoundariesRecorded ==
    /\ \E k \in DOMAIN purchases :
          /\ purchases[k].cashback_rate = 10000
          /\ purchases[k].fiat_amount = Big(1000)
          /\ purchases[k].redeemed_token_amount = Zero
          /\ purchases[k].reward_amount = Big(1000000000)
    /\ \E k \in DOMAIN purchases :
          /\ purchases[k].cashback_rate = 0
          /\ purchases[k].reward_amount = Zero
          /\ BigLt(Zero, purchases[k].total_value)

\* C8: every recorded purchase has total_value = fiat_amount + the fiat
\* equivalent of the redeemed tokens at 1000 per 10^9 base units, for every
\* redeemed amount, also one that is no multiple of 10^9.
TotalValueIsBlended ==
    \A k \in DOMAIN purchases :
        purchases[k].total_value =
            BigAdd(purchases[k].fiat_amount,
                   BigDiv(BigMul(purchases[k].redeemed_token_amount,
                                 TOKEN_TO_FIAT_RATE), TOKEN_UNIT))

\* C9: a successful process_purchase redeeming r > 0 takes exactly r from the
\* customer's balance (net of the reward) and adds exactly r to the balance of
\* the merchant of merchant_account, whichever token accounts the call names.
RedemptionReachesMerchant ==
    [][( /\ PurchaseSucceeds
         /\ BigLt(Zero, NewRecord.redeemed_token_amount)
         /\ merchants[last'.merchant].merchant_wallet # last'.customer )
       => /\ BigAdd(token_amount'[last'.customer], NewRecord.redeemed_token_amount)
               = BigAdd(token_amount[last'.customer], NewRecord.reward_amount)
          /\ token_amount'[merchants[last'.merchant].merchant_wallet]
               = BigAdd(token_amount[merchants[last'.merchant].merchant_wallet],
                        NewRecord.redeemed_token_amount)]_vars

\* each successful purchase counts once in its merchant
PurchaseCounted ==
    PurchaseSucceeds =>
        /\ merchants'[last'.merchant].total_transactions =
              BigAdd(merchants[last'.merchant].total_transactions, Big(1))
        /\ merchants'[last'.merchant].total_volume =
              BigAdd(merchants[last'.merchant].total_volume, NewRecord.total_value)
        /\ merchants'[last'.merchant].total_rewards_distributed =
              BigAdd(merchants[last'.merchant].total_rewards_distributed,
                     NewRecord.reward_amount)

\* the reward of a record, recomputed from its total_value and cashback_rate
Replayed(record) ==
    BigDiv(BigMul(BigMul(record.total_value, Big(record.cashback_rate)), TOKEN_UNIT),
           BigMul(BPS_DENOMINATOR, TOKEN_TO_FIAT_RATE))
RecordsOf(m) == {k \in DOMAIN purchases : purchases[k].merchant = m}
RewardsWithinReplay ==
    \A m \in DOMAIN merchants :
        BigLeq(merchants[m].total_rewards_distributed,
               BigSum([k \in RecordsOf(m) |-> Replayed(purchases[k])], RecordsOf(m)))

\* C10: each successful process_purchase adds 1 to the merchant's
\* total_transactions, total_value to total_volume and reward_amount to
\* total_rewards_distributed, and in every reachable state each merchant's
\* total_rewards_distributed is at most the sum of the rewards recomputed from
\* its purchase records, also when update_merchant changed the rate in between.
MerchantCountersFollowRecords ==
    []RewardsWithinReplay /\ [][PurchaseCounted]_vars

\* one merchant has two rewarded purchases on record at different rates
TwoRatesOnRecord ==
    \E j, k \in DOMAIN purchases :
        /\ purchases[j].merchant = purchases[k].merchant
        /\ purchases[j].cashback_rate # purchases[k].cashback_rate
        /\ purchases[j].reward_amount # Zero
        /\ purchases[k].reward_amount # Zero

\* the three counters of a merchant account
Counters(merchant) ==
    <<merchant.total_transactions, merchant.total_volume,
      merchant.total_rewards_distributed>>

\* a process_purchase or redeem_tokens naming a merchant that is inactive
CallsInactiveMerchant ==
    /\ last'.op \in {"process_purchase", "redeem_tokens"}
    /\ ~merchants[last'.merchant].is_active

\* C11: while a merchant is inactive every process_purchase naming it fails
\* (with MerchantNotActive when its record key is new) and every redeem_tokens
\* naming it fails, no step changes its three counters, and no tokens are
\* minted by those calls; a purchase naming an active merchant is never
\* rejected with MerchantNotActive.
InactiveMerchantIsClosed ==
    [][/\ CallsInactiveMerchant =>
            /\ last'.err # "Ok"
            /\ UNCHANGED <<merchants, token_amount, total_supply, purchases,
                           redemptions>>
            /\ ( /\ last'.op = "process_purchase"
                 /\ <<last'.customer, last'.transaction_id>> \notin DOMAIN purchases )
               => last'.err = "MerchantNotActive"
            /\ ( /\ last'.op = "redeem_tokens"
                 /\ <<last'.customer, last'.merchant, last'.transaction_id>>
                        \notin DOMAIN redemptions )
               => last'.err = "RedemptionMerchantNotActive"
       /\ \A m \in DOMAIN merchants :
            ~merchants[m].is_active => Counters(merchants'[m]) = Counters(merchants[m])
       /\ ( /\ last'.op = "process_purchase"
            /\ merchants[last'.merchant].is_active )
          => last'.err # "MerchantNotActive"]_vars

\* a purchase has succeeded at a merchant that had been inactive before
PurchaseAfterReactivation ==
    /\ last.op = "process_purchase" /\ last.err = "Ok"
    /\ last.merchant \in hist.deactivated
    /\ purchases[<<last.customer, last.transaction_id>>].reward_amount # Zero

\* the ledger accounts
ledger == <<total_supply, token_amount, merchants, purchases, transfers, redemptions, pool, stakes>>

\* a process_purchase that passes account validation: its record key is new
\* and its merchant is active
PurchaseReachesHandler ==
    /\ last'.op = "process_purchase"
    /\ <<last'.customer, last'.transaction_id>> \notin DOMAIN purchases
    /\ merchants[last'.merchant].is_active

\* C12: a process_purchase with fiat_amount = 0 or fiat_amount > 10^9 fails
\* and changes nothing, whatever it redeems (with InvalidPurchaseAmount and
\* PurchaseAmountTooLarge when it reaches the handler); one with 0 < fiat_amount
\* <= 10^9, 10^9 included, is rejected with neither.
PurchaseAmountBounds ==
    [][last'.op = "process_purchase" =>
          /\ last'.fiat_amount = Zero =>
                /\ last'.err # "Ok" /\ UNCHANGED ledger
                /\ PurchaseReachesHandler => last'.err = "InvalidPurchaseAmount"
          /\ BigLt(MAX_PURCHASE_AMOUNT, last'.fiat_amount) =>
                /\ last'.err # "Ok" /\ UNCHANGED ledger
                /\ PurchaseReachesHandler => last'.err = "PurchaseAmountTooLarge"
          /\ ( /\ BigLt(Zero, last'.fiat_amount)
               /\ BigLeq(last'.fiat_amount, MAX_PURCHASE_AMOUNT) ) =>
                last'.err \notin {"InvalidPurchaseAmount", "PurchaseAmountTooLarge"}]_vars

\* a purchase of exactly MAX_PURCHASE_AMOUNT has succeeded
PurchaseAtMaxAccepted ==
    /\ last.op = "process_purchase" /\ last.err = "Ok"
    /\ last.fiat_amount = Big(1000000000)
    /\ purchases[<<last.customer, last.transaction_id>>].fiat_amount = Big(1000000000)

\* the arguments of the register_merchant call just made
NameValid     == last'.name_len # 0 /\ last'.name_len <= 32
CategoryValid == last'.category_len # 0 /\ last'.category_len <= 16
RateValid     == last'.cashback_rate <= 10000

\* C13: a register_merchant by an owner with no merchant fails with
\* InvalidMerchantName, InvalidMerchantCategory or InvalidCashbackRate on a bad
\* name, category or rate (in that order) and changes nothing; otherwise it
\* adds the merchant keyed by the owner, active, with zero counters; one by an
\* owner that has a merchant fails and changes nothing.
RegistrationValidatedAndOnce ==
    [][last'.op = "register_merchant" =>
          IF last'.merchant \in DOMAIN merchants
          THEN last'.err = "AccountAlreadyInUse" /\ UNCHANGED ledger
          ELSE /\ ~NameValid => last'.err = "InvalidMerchantName"
               /\ NameValid /\ ~CategoryValid =>
                     last'.err = "InvalidMerchantCategory"
               /\ NameValid /\ CategoryValid /\ ~RateValid =>
                     last'.err = "InvalidCashbackRate"
               /\ last'.err # "Ok" => UNCHANGED ledger
               /\ NameValid /\ CategoryValid /\ RateValid =>
                     /\ last'.err = "Ok"
                     /\ DOMAIN merchants' = DOMAIN merchants \cup {last'.merchant}
                     /\ \A o \in DOMAIN merchants : merchants'[o] = merchants[o]
                     /\ merchants'[last'.merchant] =
                           [merchant_wallet |-> last'.merchant,
                            name_len |-> last'.name_len,
                            category_len |-> last'.category_len,
                            cashback_rate |-> last'.cashback_rate,
                            is_active |-> TRUE, total_transactions |-> Zero,
                            total_rewards_distributed |-> Zero,
                            total_volume |-> Zero]
                     /\ UNCHANGED <<total_supply, token_amount, purchases,
                                    transfers, redemptions, pool, stakes>>]_vars

\* a valid registration was refused to an owner whose merchant has traded and
\* has another rate
SecondRegistrationRefused ==
    /\ last.op = "register_merchant" /\ last.err # "Ok"
    /\ last.merchant \in DOMAIN merchants
    /\ last.name_len = 5 /\ last.category_len = 4 /\ last.cashback_rate <= 10000
    /\ merchants[last.merchant].cashback_rate # last.cashback_rate
    /\ merchants[last.merchant].total_transactions # Zero

\* the merchant an update_merchant with these arguments leaves
Updated(m, new_cashback_rate, is_active) ==
    [merchant_wallet |-> m.merchant_wallet,
     name_len |-> m.name_len, category_len |-> m.category_len,
     cashback_rate |-> IF new_cashback_rate.some THEN new_cashback_rate.v
                       ELSE m.cashback_rate,
     is_active |-> IF is_active.some THEN is_active.v ELSE m.is_active,
     total_transactions |-> m.total_transactions,
     total_rewards_distributed |-> m.total_rewards_distributed,
     total_volume |-> m.total_volume]

\* C14: an update_merchant by anyone but the merchant's owner fails and
\* changes nothing; one by the owner with a new rate above 10000 fails with
\* InvalidCashbackRate and changes nothing, whatever flag it carries; any other
\* by the owner succeeds and changes only the merchant's cashback_rate, when a
\* rate is supplied, and is_active, when a flag is supplied.
UpdateByOwnerFieldByField ==
    [][last'.op = "update_merchant" =>
          IF last'.merchant_owner # merchants[last'.merchant].merchant_wallet
          THEN last'.err # "Ok" /\ UNCHANGED ledger
          ELSE IF last'.new_cashback_rate.some /\ last'.new_cashback_rate.v > 10000
          THEN last'.err = "InvalidCashbackRate" /\ UNCHANGED ledger
          ELSE /\ last'.err = "Ok"
               /\ DOMAIN merchants' = DOMAIN merchants
               /\ \A o \in DOMAIN merchants :
                     merchants'[o] =
                        IF o = last'.merchant
                        THEN Updated(merchants[o], last'.new_cashback_rate,
                                     last'.is_active)
                        ELSE merchants[o]
               /\ UNCHANGED <<total_supply, token_amount, purchases,
                              transfers, redemptions, pool, stakes>>]_vars

\* a rate was supplied without a flag to a merchant that is inactive
RateUpdatedWhileInactive ==
    /\ last.op = "update_merchant" /\ last.err = "Ok"
    /\ last.new_cashback_rate = Some(250) /\ last.is_active = None
    /\ ~merchants[last.merchant].is_active
    /\ merchants[last.merchant].cashback_rate = 250

\* C15: in every reachable state the cashback_rate of every merchant and of
\* every purchase record is at most 10000.
CashbackRateWithinBound ==
    /\ \A m \in DOMAIN merchants : merchants[m].cashback_rate <= 10000
    /\ \A k \in DOMAIN purchases : purchases[k].cashback_rate <= 10000

\* a rate of 10001 was refused to a merchant that trades at 10000
RateAboveBoundRefused ==
    /\ last.op = "update_merchant" /\ last.err = "InvalidCashbackRate"
    /\ last.new_cashback_rate = Some(10001)
    /\ merchants[last.merchant].cashback_rate = 10000
    /\ \E k \in DOMAIN purchases :
          /\ purchases[k].merchant = last.merchant
          /\ purchases[k].cashback_rate = 10000

\* C16: a transfer_tokens whose recipient token account belongs to the sender
\* fails, moves no tokens and creates no TransferRecord, whichever token
\* accounts it names.
SelfTransferAlwaysRejected ==
    [][( /\ last'.op = "transfer_tokens"
         /\ TokenOwner(last'.rta) = last'.sender ) =>
          /\ last'.err # "Ok"
          /\ UNCHANGED <<token_amount, transfers>>]_vars

\* a transfer_tokens that passes account validation: its record key is new,
\* the source is the sender's and the destination is another token account
TransferReachesHandler ==
    /\ last'.op = "transfer_tokens"
    /\ <<last'.sender, last'.transaction_id>> \notin DOMAIN transfers
    /\ TokenOwner(last'.sta) = last'.sender
    /\ last'.rta # last'.sta

\* C17: a transfer_tokens of amount 0, of more than 10^13 or of more than the
\* source holds fails (InvalidTransferAmount, TransferAmountTooLarge,
\* InsufficientBalance when it reaches that check) and changes nothing; a
\* successful one takes amount from the source, adds it to the destination,
\* creates the one record (from, to, amount, transaction_id) and leaves
\* total_supply, the merchants, the pool and the sum of balances as they were.
TransferMovesAndConserves ==
    [][last'.op = "transfer_tokens" =>
          /\ last'.err # "Ok" => UNCHANGED ledger
          /\ last'.amount = Zero =>
                /\ last'.err # "Ok"
                /\ TransferReachesHandler => last'.err = "InvalidTransferAmount"
          /\ BigLt(BigMul(Big(10000), Big(1000000000)), last'.amount) =>
                /\ last'.err # "Ok"
                /\ TransferReachesHandler => last'.err = "TransferAmountTooLarge"
          /\ BigLt(token_amount[last'.sta], last'.amount) =>
                /\ last'.err # "Ok"
                /\ ( /\ TransferReachesHandler
                     /\ ~BigLt(BigMul(Big(10000), Big(1000000000)), last'.amount)
                     /\ last'.memo_len <= 64 ) =>
                      last'.err = "InsufficientBalance"
          /\ last'.err = "Ok" =>
                /\ token_amount'[last'.sta] =
                      BigSub(token_amount[last'.sta], last'.amount)
                /\ token_amount'[last'.rta] =
                      BigAdd(token_amount[last'.rta], last'.amount)
                /\ \A h \in Holders \ {last'.sta, last'.rta} :
                      token_amount'[h] = token_amount[h]
                /\ AllTokens(token_amount') = AllTokens(token_amount)
                /\ DOMAIN transfers' = DOMAIN transfers
                      \cup {<<last'.sender, last'.transaction_id>>}
                /\ <<last'.sender, last'.transaction_id>> \notin DOMAIN transfers
                /\ \A k \in DOMAIN transfers : transfers'[k] = transfers[k]
                /\ With(transfers'[<<last'.sender, last'.transaction_id>>],
                        LAMBDA rec :
                          /\ rec.from = last'.sender
                          /\ rec.to = TokenOwner(last'.rta)
                          /\ rec.amount = last'.amount
                          /\ rec.transaction_id = last'.transaction_id)
                /\ UNCHANGED <<total_supply, merchants, purchases, redemptions,
                               pool, stakes>>]_vars

\* half a token has gone from one wallet to another wallet's empty account
TransferredToAnotherWallet ==
    /\ last.op = "transfer_tokens" /\ last.err = "Ok"
    /\ TokenOwner(last.rta) # last.sender
    /\ token_amount[last.rta] = last.amount
    /\ transfers[<<last.sender, last.transaction_id>>].to = TokenOwner(last.rta)

\* the balances after amount has moved from one token account to another
Moved(amounts, from, to, amount) ==
    With([amounts EXCEPT ![from] = BigSub(@, amount)], LAMBDA taken :
         [taken EXCEPT ![to] = BigAdd(@, amount)])

\* the record key of the redeem_tokens call just made
RedemptionKey == <<last'.customer, last'.merchant, last'.transaction_id>>

\* C18: a redeem_tokens succeeds only at an active merchant, with
\* token_amount > 0, discount_rate <= 10000 and a customer balance of at least
\* token_amount; a successful one moves token_amount from the customer's
\* account to an account of the merchant's owner, adds 1 to the merchant's
\* total_transactions and fiat_value to its total_volume, creates one record
\* and changes nothing else: not total_supply, not total_rewards_distributed.
RedemptionMovesAndCounts ==
    [][last'.op = "redeem_tokens" =>
          /\ last'.err # "Ok" => UNCHANGED ledger
          /\ last'.err = "Ok" =>
                /\ merchants[last'.merchant].is_active
                /\ BigLt(Zero, last'.token_amount)
                /\ last'.discount_rate <= 10000
                /\ BigLeq(last'.token_amount, token_amount[last'.cta])
                /\ TokenOwner(last'.cta) = last'.customer
                /\ TokenOwner(last'.mta) = merchants[last'.merchant].merchant_wallet
                /\ token_amount' = Moved(token_amount, last'.cta, last'.mta,
                                         last'.token_amount)
                /\ DOMAIN merchants' = DOMAIN merchants
                /\ \A o \in DOMAIN merchants :
                      merchants'[o] =
                         IF o = last'.merchant
                         THEN [merchants[o] EXCEPT
                                 !.total_transactions = BigAdd(@, Big(1)),
                                 !.total_volume = BigAdd(@, last'.fiat_value)]
                         ELSE merchants[o]
                /\ RedemptionKey \notin DOMAIN redemptions
                /\ DOMAIN redemptions' = DOMAIN redemptions \cup {RedemptionKey}
                /\ \A k \in DOMAIN redemptions : redemptions'[k] = redemptions[k]
                /\ redemptions'[RedemptionKey] =
                      [customer |-> last'.customer, merchant |-> last'.merchant,
                       token_amount |-> last'.token_amount,
                       fiat_value |-> last'.fiat_value,
                       discount_rate |-> last'.discount_rate,
                       transaction_id |-> last'.transaction_id]
                /\ UNCHANGED <<total_supply, purchases, transfers, pool,
                               stakes>>]_vars

\* a customer has redeemed half a token at another wallet's merchant
RedeemedAtMerchant ==
    /\ last.op = "redeem_tokens" /\ last.err = "Ok"
    /\ last.customer # merchants[last.merchant].merchant_wallet
    /\ token_amount[last.mta] = last.token_amount
    /\ merchants[last.merchant].total_transactions = Big(1)
    /\ merchants[last.merchant].total_volume = last.fiat_value
    /\ merchants[last.merchant].total_rewards_distributed = Zero
    /\ total_supply = AllTokens(token_amount)

\* a burn_tokens that passes account validation: the caller owns the merchant
\* account and the token account it names
BurnReachesHandler ==
    /\ last'.op = "burn_tokens"
    /\ merchants[last'.merchant].merchant_wallet = last'.merchant_owner
    /\ TokenOwner(last'.holder) = last'.merchant_owner

\* the effect of a successful burn_tokens
BurnTakesAmount ==
    /\ last'.err = "Ok"
    /\ BigLeq(last'.amount, total_supply)
    /\ total_supply' = BigSub(total_supply, last'.amount)
    /\ token_amount' = [token_amount EXCEPT ![last'.holder] =
                           BigSub(@, last'.amount)]
    /\ UNCHANGED <<merchants, purchases, transfers, redemptions, pool, stakes>>

TransferKey == <<last'.sender, last'.transaction_id>>

\* the transfer_tokens just made is valid but for its record key
TransferOtherwiseValid ==
    /\ TokenOwner(last'.sta) = last'.sender /\ last'.rta # last'.sta
    /\ BigLt(Zero, last'.amount) /\ BigLeq(last'.amount, MAX_TRANSFER_AMOUNT)
    /\ last'.memo_len <= MAX_MEMO_LEN
    /\ BigLeq(last'.amount, token_amount[last'.sta])

\* the redeem_tokens just made is valid but for its record key
RedemptionOtherwiseValid ==
    /\ TokenOwner(last'.cta) = last'.customer
    /\ merchants[last'.merchant].is_active
    /\ TokenOwner(last'.mta) = merchants[last'.merchant].merchant_wallet
    /\ BigLt(Zero, last'.token_amount) /\ BigLt(Zero, last'.fiat_value)
    /\ BigLeq(last'.token_amount, MAX_REDEMPTION_AMOUNT)
    /\ last'.discount_rate <= MAX_CASHBACK_RATE
    /\ BigLeq(last'.token_amount, token_amount[last'.cta])

\* C20: a transfer_tokens whose (sender, transaction_id) has a record, and a
\* redeem_tokens whose (customer, merchant, transaction_id) has one, fails and
\* changes nothing; an otherwise valid call whose key has no record succeeds,
\* whoever else has used its transaction_id.
TransferAndRedemptionOnce ==
    [][/\ last'.op = "transfer_tokens" =>
             IF TransferKey \in DOMAIN transfers
             THEN last'.err = "AccountAlreadyInUse" /\ UNCHANGED ledger
             ELSE /\ last'.err # "AccountAlreadyInUse"
                  /\ TransferOtherwiseValid => last'.err = "Ok"
       /\ last'.op = "redeem_tokens" =>
             IF RedemptionKey \in DOMAIN redemptions
             THEN last'.err = "AccountAlreadyInUse" /\ UNCHANGED ledger
             ELSE /\ last'.err # "AccountAlreadyInUse"
                  /\ RedemptionOtherwiseValid => last'.err = "Ok"]_vars

\* a customer has redeemed under one transaction_id at two merchants and the
\* repeat at one of them was refused
RedemptionRepeatedAtOneOfTwo ==
    /\ last.op = "redeem_tokens" /\ last.err = "AccountAlreadyInUse"
    /\ \A m \in MerchantOwners :
          <<last.customer, m, last.transaction_id>> \in DOMAIN redemptions
    /\ \A m \in MerchantOwners : merchants[m].total_transactions = Big(1)
    /\ token_amount[last.cta] = Tokens(1)

\* two senders have transferred under one transaction_id and the repeat of one
\* was refused
TransferRepeatedByOneOfTwo ==
    /\ last.op = "transfer_tokens" /\ last.err = "AccountAlreadyInUse"
    /\ \A s \in Customers : <<s, last.transaction_id>> \in DOMAIN transfers

\* alice staked 100 and bob 300, and the one record_yield so far, of 400, found
\* them both staked
OneYieldOverTwoStakers ==
    /\ hist.deposited = [alice |-> Big(100), bob |-> Big(300)]
    /\ hist.yields = <<[sol_amount |-> Big(400),
                        staked |-> [alice |-> Big(100), bob |-> Big(300)]]>>

\* C21: after the one record_yield(400) over alice's 100 and bob's 300, a
\* staker has been credited nothing until their first redeem_voucher after
\* it and from then on exactly their stake at the yield, 100 and 300, in
\* whatever order they redeem and in however many parts.
YieldSharedByStake ==
    OneYieldOverTwoStakers =>
        \A u \in PoolUsers :
            /\ hist.credited[u] =
                  IF stakes[u].user_reward_index = pool.reward_index
                  THEN hist.yields[1].staked[u] ELSE Zero
            /\ stakes[u].staked_amount = Zero =>
                  hist.credited[u] = hist.yields[1].staked[u]

\* alice has withdrawn in two parts around bob's withdrawal, and the second
\* part was credited nothing
BothWithdrawnInParts ==
    /\ OneYieldOverTwoStakers
    /\ \A u \in PoolUsers : stakes[u].staked_amount = Zero
    /\ hist.credited = [alice |-> Big(100), bob |-> Big(300)]
    /\ last.op = "redeem_voucher" /\ last.err = "Ok"
    /\ last.user = "alice" /\ last.amount = Big(50)
    /\ last.claimable_yield = Zero

\* C22: a successful deposit_voucher for a user with no stake sets the user's
\* user_reward_index to the pool's reward_index and adds 1 to total_stakers;
\* and a redeem_voucher credits a user at most their stake times the growth of
\* reward_index since that deposit, so nothing for the yield recorded before.
LateJoinerStartsAtPoolIndex ==
    [][/\ ( /\ last'.op = "deposit_voucher" /\ last'.err = "Ok"
            /\ StakedAmount(Accounts, last'.user) = Zero ) =>
             /\ stakes'[last'.user].user_reward_index = pool.reward_index
             /\ pool'.total_stakers = BigAdd(pool.total_stakers, Big(1))
       /\ (last'.op = "redeem_voucher" /\ last'.err = "Ok") =>
             /\ BigLeq(hist.joined[last'.user], pool.reward_index)
             /\ BigLeq(BigMul(last'.claimable_yield, REWARD_INDEX_SCALE),
                       BigMul(stakes[last'.user].staked_amount,
                              BigSub(pool.reward_index,
                                     hist.joined[last'.user])))]_vars

\* a user who joined after the only yield has withdrawn and was credited
\* nothing
LateJoinerCreditedNothing ==
    /\ last.op = "redeem_voucher" /\ last.err = "Ok"
    /\ last.claimable_yield = Zero
    /\ pool.reward_index # Zero
    /\ hist.joined[last.user] = pool.reward_index
    /\ stakes[last.user].staked_amount = Zero
    /\ pool.total_voucher_staked # Zero

\* alice has deposited 500, nobody else has staked, and the one record_yield
\* so far, of 1000, found total_voucher_staked = 500
YieldOverOneStaker ==
    /\ hist.deposited = [alice |-> Big(500), bob |-> Zero]
    /\ hist.yields = <<[sol_amount |-> Big(1000),
                        staked |-> [alice |-> Big(500), bob |-> Zero]]>>

\* the redeem_voucher(alice, 500) that follows
AliceRedeemedAll ==
    /\ last.op = "redeem_voucher" /\ last.err = "Ok"
    /\ last.user = "alice" /\ last.amount = Big(500)

\* C23 (as the code has it): after deposit_voucher(alice, 500) and
\* record_yield(1000) in the pool of min 100, max 10000, apy 1200,
\* reward_index is 1000 * 10^12 / 500 = 2 * 10^12, and the redeem_voucher(alice,
\* 500) that follows credits 500 * 2 * 10^12 / 10^12 = 1000.
ScenarioCreditsThousand ==
    YieldOverOneStaker =>
        /\ pool.reward_index = BigMul(Big(2), REWARD_INDEX_SCALE)
        /\ AliceRedeemedAll => last.claimable_yield = Big(1000)

\* C23: in that scenario reward_index is 2 * 10^9 and the redeem_voucher
\* credits 1.
ScenarioCreditsOne ==
    YieldOverOneStaker =>
        /\ pool.reward_index = BigMul(Big(2), Big(1000000000))
        /\ AliceRedeemedAll => last.claimable_yield = Big(1)

\* the scenario has run to its end
ScenarioRedeemed ==
    /\ pool.config = StakingConfig
    /\ YieldOverOneStaker
    /\ AliceRedeemedAll
    /\ hist.credited["alice"] = Big(1000)
    /\ stakes["alice"].total_yield_claimed = Big(1000)
    /\ pool.total_voucher_staked = Zero

\* q is floor(n / d)
IsFloorOf(q, n, d) ==
    /\ BigLeq(BigMul(q, d), n)
    /\ BigLt(n, BigMul(BigAdd(q, Big(1)), d))

\* every record_yield so far found nobody staked
NoYieldOverStakers ==
    \A i \in DOMAIN hist.yields :
        \A u \in PoolUsers : hist.yields[i].staked[u] = Zero

\* C24: a successful record_yield(sol_amount) adds sol_amount to
\* total_sol_staked and total_yield_earned, adds floor(sol_amount * 10^12 /
\* total_voucher_staked) to reward_index when total_voucher_staked > 0 and
\* leaves reward_index alone when it is 0, and changes nothing else; a failed
\* one changes nothing; while every record_yield found nobody staked,
\* reward_index is 0 and no user has been credited any yield.
YieldAdvancesIndex ==
    [][/\ last'.op = "record_yield" =>
             IF last'.err # "Ok" THEN UNCHANGED ledger
             ELSE /\ pool'.total_sol_staked =
                        BigAdd(pool.total_sol_staked, last'.sol_amount)
                  /\ pool'.total_yield_earned =
                        BigAdd(pool.total_yield_earned, last'.sol_amount)
                  /\ BigLeq(pool.reward_index, pool'.reward_index)
                  /\ IF BigLt(Zero, pool.total_voucher_staked)
                     THEN IsFloorOf(BigSub(pool'.reward_index, pool.reward_index),
                                    BigMul(last'.sol_amount,
                                           BigMul(Big(1000000), Big(1000000))),
                                    pool.total_voucher_staked)
                     ELSE pool'.reward_index = pool.reward_index
                  /\ pool' = [pool EXCEPT
                                !.total_sol_staked = pool'.total_sol_staked,
                                !.total_yield_earned = pool'.total_yield_earned,
                                !.reward_index = pool'.reward_index]
                  /\ UNCHANGED <<stakes, token_amount, total_supply, merchants,
                                 purchases, transfers, redemptions>>
       /\ NoYieldOverStakers' =>
             /\ pool'.reward_index = Zero
             /\ \A u \in PoolUsers : hist'.credited[u] = Zero]_vars

\* yield was recorded while nobody was staked, and a user who staked and
\* withdrew afterwards was credited nothing
UnstakedYieldCreditedToNobody ==
    /\ NoYieldOverStakers
    /\ pool.total_yield_earned # Zero
    /\ pool.reward_index = Zero
    /\ last.op = "redeem_voucher" /\ last.err = "Ok"
    /\ last.claimable_yield = Zero

\* C25: no step lowers pool.reward_index; only a successful record_yield over
\* total_voucher_staked > 0 changes it; initialize_pool succeeds once, leaving
\* it 0, and deposit_voucher, redeem_voucher and update_pool_config leave it
\* as it is.
RewardIndexNeverFalls ==
    [][/\ BigLeq(pool.reward_index, pool'.reward_index)
       /\ pool'.reward_index # pool.reward_index =>
             /\ last'.op = "record_yield" /\ last'.err = "Ok"
             /\ BigLt(Zero, pool.total_voucher_staked)
       /\ last'.op \in {"deposit_voucher", "redeem_voucher",
                        "update_pool_config"} =>
             pool'.reward_index = pool.reward_index
       /\ (last'.op = "initialize_pool" /\ last'.err = "Ok") =>
             ~pool.initialized /\ pool'.reward_index = Zero]_vars

\* the index a record_yield has raised has come through a change of the
\* config and a withdrawal
RaisedIndexKept ==
    /\ pool.reward_index # Zero
    /\ last.op = "update_pool_config" /\ last.err = "Ok"
    /\ \E u \in DOMAIN stakes : stakes[u].user_reward_index = pool.reward_index

\* C26: a redeem_voucher(user, amount) succeeds only with 0 < amount <=
\* staked_amount; a successful one credits floor(staked_amount * (reward_index
\* - user_reward_index) / 10^12) on the stake before it, adds that to
\* total_yield_claimed, moves amount from the vault to the user, takes amount
\* from staked_amount and total_voucher_staked and sets user_reward_index to
\* reward_index; repeated at once it credits 0.
RedemptionCreditsExactShare ==
    [][(last'.op = "redeem_voucher" /\ last'.err = "Ok") =>
          /\ BigLt(Zero, last'.amount)
          /\ BigLeq(last'.amount, stakes[last'.user].staked_amount)
          /\ IsFloorOf(last'.claimable_yield,
                       BigMul(stakes[last'.user].staked_amount,
                              BigSub(pool.reward_index,
                                     stakes[last'.user].user_reward_index)),
                       BigMul(Big(1000000), Big(1000000)))
          /\ stakes'[last'.user].total_yield_claimed =
                BigAdd(stakes[last'.user].total_yield_claimed,
                       last'.claimable_yield)
          /\ token_amount' = Moved(token_amount, Vault, last'.user, last'.amount)
          /\ stakes'[last'.user].staked_amount =
                BigSub(stakes[last'.user].staked_amount, last'.amount)
          /\ pool'.total_voucher_staked =
                BigSub(pool.total_voucher_staked, last'.amount)
          /\ stakes'[last'.user].user_reward_index = pool.reward_index
          /\ ( /\ last.op = "redeem_voucher" /\ last.err = "Ok"
               /\ last.user = last'.user ) => last'.claimable_yield = Zero]_vars

\* the accounts with one flag of the pool's config the other way
Flipped(st, flag) == [st EXCEPT !.pool.config[flag] = ~@]

\* C27: whatever update_pool_config calls came before, a deposit_voucher
\* while deposits_enabled is false fails and changes nothing, with
\* DepositsDisabled when the pool delegate calls it, and a redeem_voucher
\* while withdrawals_enabled is false fails with WithdrawalsDisabled and
\* changes nothing; a deposit_voucher ends the same with withdrawals_enabled
\* the other way, a redeem_voucher the same with deposits_enabled the other
\* way, and a record_yield the same with either flag the other way.
FlagsGateDepositAndRedeem ==
    [][/\ (last'.op = "deposit_voucher" /\ ~pool.config.deposits_enabled) =>
             /\ last'.err # "Ok"
             /\ UNCHANGED ledger
             /\ last'.pool_delegate = pool.pool_delegate => last'.err = "DepositsDisabled"
       /\ (last'.op = "redeem_voucher" /\ ~pool.config.withdrawals_enabled) =>
             /\ last'.err = "WithdrawalsDisabled"
             /\ UNCHANGED ledger
       /\ last'.op = "deposit_voucher" =>
             last'.err = DepositVoucherRun(Flipped(Accounts, "withdrawals_enabled"), last'.user, last'.pool_delegate, last'.approved, last'.amount).err
       /\ last'.op = "redeem_voucher" =>
             last'.err = RedeemVoucherRun(Flipped(Accounts, "deposits_enabled"), last'.user, last'.amount).err
       /\ last'.op = "record_yield" =>
             \A flag \in {"deposits_enabled", "withdrawals_enabled"} :
                 /\ last'.err = RecordYieldRun(Flipped(Accounts, flag), last'.pool_delegate, last'.sol_amount).err
                 /\ last'.err = "Ok" =>
                       pool' = Flipped(RecordYieldRun(Flipped(Accounts, flag), last'.pool_delegate, last'.sol_amount).st, flag).pool
      ]_vars

\* deposits were open, alice staked, update_pool_config closed them and left
\* withdrawals open, and the delegate's next deposit_voucher was refused
DepositRefusedAfterDisable ==
    /\ last.op = "deposit_voucher" /\ last.err = "DepositsDisabled"
    /\ ~pool.config.deposits_enabled /\ pool.config.withdrawals_enabled
    /\ StakedAmount(Accounts, "alice") # Zero
    /\ BigLeq(pool.config.min_stake_amount, last.amount)

\* the deposit_voucher passes the account constraints on the pool
DepositReachesHandler ==
    /\ last'.op = "deposit_voucher"
    /\ last'.pool_delegate = pool.pool_delegate
    /\ pool.config.deposits_enabled

DepositAmountInvalid ==
    last'.amount = Zero \/ BigLt(last'.amount, pool.config.min_stake_amount)

DepositExceedsMax ==
    BigLt(pool.config.max_stake_per_user,
          BigAdd(StakedAmount(Accounts, last'.user), last'.amount))

\* C28: a deposit_voucher by anyone but the pool delegate fails with
\* UnauthorizedDelegate; one with amount = 0 or amount < min_stake_amount
\* fails, with InvalidAmount once it is past the account constraints; one
\* with staked_amount + amount > max_stake_per_user fails, with
\* ExceedsMaxStake once its amount is valid; all leave the ledger as it was.
\* Past these checks, with staked_amount + amount <= max_stake_per_user, the
\* approved amount held by the user is accepted; and a successful deposit moves
\* amount from the user to the vault and adds amount to staked_amount and to
\* total_voucher_staked.
DepositValidatedAndMoved ==
    [][last'.op = "deposit_voucher" =>
         /\ last'.pool_delegate # pool.pool_delegate =>
               last'.err = "UnauthorizedDelegate" /\ UNCHANGED ledger
         /\ DepositAmountInvalid => last'.err # "Ok" /\ UNCHANGED ledger
         /\ (DepositReachesHandler /\ DepositAmountInvalid) => last'.err = "InvalidAmount"
         /\ DepositExceedsMax => last'.err # "Ok" /\ UNCHANGED ledger
         /\ (DepositReachesHandler /\ ~DepositAmountInvalid /\ DepositExceedsMax) =>
               last'.err = "ExceedsMaxStake"
         /\ last'.err = "InvalidAmount" => DepositAmountInvalid
         /\ last'.err = "ExceedsMaxStake" => DepositExceedsMax
         /\ ( /\ DepositReachesHandler /\ ~DepositAmountInvalid /\ ~DepositExceedsMax
              /\ last'.approved /\ BigLeq(last'.amount, token_amount[last'.user]) ) =>
               last'.err = "Ok"
         /\ last'.err = "Ok" =>
               /\ token_amount' = Moved(token_amount, last'.user, Vault, last'.amount)
               /\ stakes'[last'.user].staked_amount =
                     BigAdd(StakedAmount(Accounts, last'.user), last'.amount)
               /\ pool'.total_voucher_staked =
                     BigAdd(pool.total_voucher_staked, last'.amount)
               /\ \A u \in DOMAIN stakes \ {last'.user} : stakes'[u] = stakes[u]
      ]_vars

\* a second deposit has taken a stake to exactly max_stake_per_user
DepositReachedMax ==
    /\ last.op = "deposit_voucher" /\ last.err = "Ok"
    /\ stakes[last.user].staked_amount = pool.config.max_stake_per_user
    /\ BigLt(last.amount, pool.config.max_stake_per_user)
    /\ token_amount[Vault] = pool.config.max_stake_per_user

\* the users with a positive stake
Stakers == {u \in DOMAIN stakes : stakes[u].staked_amount # Zero}

StakersCounted == pool.total_stakers = Big(Cardinality(Stakers))

\* C29: total_stakers is the number of users with staked_amount > 0 in every
\* state. A successful deposit_voucher adds 1 to it when the user's
\* staked_amount was 0 (a first deposit or one after a full withdrawal) and
\* leaves it otherwise; a successful redeem_voucher takes 1 from it when it
\* leaves the user's staked_amount at 0 and leaves it otherwise; no other call
\* changes it; and a redeem_voucher of a whole stake finds it above 0.
TotalStakersCountsStakers ==
    /\ []StakersCounted
    /\ [][/\ (last'.op = "deposit_voucher" /\ last'.err = "Ok") =>
                pool'.total_stakers =
                   IF StakedAmount(Accounts, last'.user) = Zero
                   THEN BigAdd(pool.total_stakers, Big(1)) ELSE pool.total_stakers
          /\ (last'.op = "redeem_voucher" /\ last'.err = "Ok") =>
                pool'.total_stakers =
                   IF stakes'[last'.user].staked_amount = Zero
                   THEN BigSub(pool.total_stakers, Big(1)) ELSE pool.total_stakers
          /\ ~(last'.op \in {"deposit_voucher", "redeem_voucher"} /\ last'.err = "Ok") =>
                pool'.total_stakers = pool.total_stakers
          /\ ( /\ last'.op = "redeem_voucher" /\ last'.amount # Zero
               /\ last'.amount = stakes[last'.user].staked_amount ) =>
                pool.total_stakers # Zero /\ last'.err # "Overflow"
         ]_vars

\* alice has staked, withdrawn everything and staked again beside bob
ReenteredAfterFullWithdrawal ==
    /\ last.op = "deposit_voucher" /\ last.err = "Ok" /\ last.user = "alice"
    /\ hist.deposited = [alice |-> Big(200), bob |-> Big(300)]
    /\ Stakers = {"alice", "bob"}
    /\ stakes["alice"].staked_amount = Big(100)
    /\ pool.total_stakers = Big(2)

\* what the two handlers require of a config
WithinConfigBounds(config) ==
    /\ config.min_stake_amount # Zero
    /\ ~BigLt(config.max_stake_per_user, config.min_stake_amount)
    /\ config.apy_basis_points <= 10000

\* the initialize_pool or update_pool_config passes the account constraints
ConfigCallReachesHandler ==
    \/ last'.op = "initialize_pool" /\ ~pool.initialized
    \/ last'.op = "update_pool_config" /\ last'.pool_authority = pool.pool_authority

\* C30: the config of an initialized pool has min_stake_amount > 0,
\* max_stake_per_user >= min_stake_amount and apy_basis_points <= 10000 in
\* every state: an initialize_pool or update_pool_config with a config outside
\* these bounds fails and changes nothing, with InvalidAmount once it is past
\* the account constraints, and one within them that is past the account
\* constraints succeeds and stores the config; initialize_pool leaves
\* total_voucher_staked, total_sol_staked, total_yield_earned, total_stakers
\* and reward_index at 0, update_pool_config leaves them as they were.
PoolConfigAlwaysValid ==
    /\ [](pool.initialized => WithinConfigBounds(pool.config))
    /\ [][last'.op \in {"initialize_pool", "update_pool_config"} =>
            /\ ~WithinConfigBounds(last'.config) => last'.err # "Ok" /\ UNCHANGED ledger
            /\ ConfigCallReachesHandler =>
                  last'.err = IF WithinConfigBounds(last'.config) THEN "Ok" ELSE "InvalidAmount"
            /\ last'.err = "InvalidAmount" => ~WithinConfigBounds(last'.config)
            /\ last'.err = "Ok" => pool'.initialized /\ pool'.config = last'.config
            /\ (last'.op = "initialize_pool" /\ last'.err = "Ok") =>
                  /\ pool'.total_voucher_staked = Zero
                  /\ pool'.total_sol_staked = Zero
                  /\ pool'.total_yield_earned = Zero
                  /\ pool'.total_stakers = Zero
                  /\ pool'.reward_index = Zero
            /\ (last'.op = "update_pool_config" /\ last'.err = "Ok") =>
                  pool' = [pool EXCEPT !.config = last'.config]
         ]_vars

\* a staked pool was given the config at both bounds, max_stake_per_user equal
\* to min_stake_amount and an apy of 10000
ConfigAtBoundsAccepted ==
    /\ last.op = "update_pool_config" /\ last.err = "Ok"
    /\ pool.config.max_stake_per_user = pool.config.min_stake_amount
    /\ pool.config.apy_basis_points = 10000
    /\ pool.total_voucher_staked # Zero

\* C31: an update_pool_config by anyone but the pool authority, the pool
\* delegate included, fails with Unauthorized; a failed one, for its caller or
\* for its config, leaves the ledger and so the old config as it was; a
\* successful one is the pool authority's, puts the new config in place of the
\* old and leaves every other field of the pool, every stake record and every
\* token balance as it was.
ConfigReplacedByAuthorityOnly ==
    [][last'.op = "update_pool_config" =>
         /\ last'.pool_authority # pool.pool_authority => last'.err = "Unauthorized"
         /\ last'.err # "Ok" => UNCHANGED ledger
         /\ last'.err = "Ok" =>
               /\ last'.pool_authority = pool.pool_authority
               /\ pool'.config = last'.config
               /\ \A f \in DOMAIN pool \ {"config"} : pool'[f] = pool[f]
               /\ UNCHANGED <<stakes, token_amount, total_supply>>
      ]_vars

\* a pool with a stake and a raised reward_index was given a config with both
\* flags off, and only the config changed hands
ConfigReplacedUnderStakes ==
    /\ last.op = "update_pool_config" /\ last.err = "Ok"
    /\ pool.config = last.config
    /\ ~pool.config.deposits_enabled /\ ~pool.config.withdrawals_enabled
    /\ pool.reward_index # Zero
    /\ StakedAmount(Accounts, "alice") # Zero
    /\ token_amount[Vault] = pool.total_voucher_staked

\* staked_amount * (reward_index - user_reward_index) / 10^12 of the user
\* named by the step, as an exact natural number
ExactShare ==
    BigDiv(BigMul(stakes[last'.user].staked_amount,
                  BigSub(pool.reward_index, stakes[last'.user].user_reward_index)),
           BigMul(Big(1000000), Big(1000000)))

\* C32: no pool instruction stores a value that is not the exact one. A
\* redeem_voucher whose exact share staked_amount * index_diff / 10^12 does
\* not fit u64 fails and changes nothing, and a successful one credits the
\* exact share; a successful record_yield adds sol_amount exactly to
\* total_sol_staked and total_yield_earned, and a successful deposit_voucher
\* adds amount exactly to staked_amount and total_voucher_staked, all within
\* u64, and reward_index stays within u128.
NoSilentTruncation ==
    [][/\ (last'.op = "redeem_voucher" /\ ~BigLeq(ExactShare, U64_MAX)) =>
             last'.err # "Ok" /\ UNCHANGED ledger
       /\ (last'.op = "redeem_voucher" /\ last'.err = "Ok") =>
             /\ last'.claimable_yield = ExactShare
             /\ stakes'[last'.user].total_yield_claimed =
                   BigAdd(stakes[last'.user].total_yield_claimed, ExactShare)
       /\ (last'.op = "record_yield" /\ last'.err = "Ok") =>
             /\ pool'.total_sol_staked = BigAdd(pool.total_sol_staked, last'.sol_amount)
             /\ pool'.total_yield_earned = BigAdd(pool.total_yield_earned, last'.sol_amount)
             /\ BigLeq(pool'.total_sol_staked, U64_MAX)
             /\ BigLeq(pool'.total_yield_earned, U64_MAX)
             /\ BigLeq(pool'.reward_index, U128_MAX)
       /\ (last'.op = "deposit_voucher" /\ last'.err = "Ok") =>
             /\ stakes'[last'.user].staked_amount =
                   BigAdd(StakedAmount(Accounts, last'.user), last'.amount)
             /\ BigLeq(pool'.total_voucher_staked, U64_MAX)
      ]_vars

\* the errors of the token program's transfer, mint_to and burn
TokenErrors == {"TokenOwnerMismatch", "TokenInsufficientFunds", "TokenOverflow"}

PairCalls ==
    {[op |-> "process_purchase", customer |-> c, merchant |-> m, redeem |-> r] :
        c \in Customers, m \in MerchantOwners, r \in PairsRedeemAmounts}
    \cup {[op |-> "redeem_tokens", customer |-> c, merchant |-> m, amount |-> a] :
        c \in Customers, m \in MerchantOwners,
        a \in {HalfToken, BigAdd(Tokens(2), HalfToken)}}
    \cup {[op |-> o, user |-> u, amount |-> a] :
        o \in {"deposit_voucher", "redeem_voucher"}, u \in PoolUsers,
        a \in {Big(100), Big(300)}}

\* the call on the accounts st
RunCall(st, call) ==
    IF call.op = "process_purchase"
    THEN ProcessPurchaseRun(st, call.customer, call.merchant, call.customer, call.merchant, Big(1000), call.redeem, "t1")
    ELSE IF call.op = "redeem_tokens"
    THEN RedeemTokensRun(st, call.customer, call.merchant, call.customer, call.merchant, call.amount, Big(500), 500, "t1")
    ELSE IF call.op = "deposit_voucher"
    THEN DepositVoucherRun(st, call.user, PoolDelegate, TRUE, call.amount)
    ELSE IF call.user \in DOMAIN st.stakes
    THEN RedeemVoucherRun(st, call.user, call.amount)
    ELSE Err("AccountNotInitialized", st)

\* when a then b both succeed, so do b then a, with the same accounts at the
\* end; and when each succeeds on its own, a then b both succeed
EitherOrder(st, a, b) ==
    With(RunCall(st, a), LAMBDA first :
        first.err = "Ok" =>
            With(RunCall(first.st, b), LAMBDA ab :
            With(RunCall(st, b), LAMBDA other :
                /\ ab.err = "Ok" =>
                      /\ other.err = "Ok"
                      /\ With(RunCall(other.st, a), LAMBDA ba :
                              ba.err = "Ok" /\ ba.st = ab.st)
                /\ other.err = "Ok" => ab.err = "Ok")))

\* two purchases, or two redemptions, of different customers at different
\* merchants, or two pool calls of different users
DifferentParties(a, b) ==
    \/ /\ a.op = b.op /\ a.op \in {"process_purchase", "redeem_tokens"}
       /\ a.customer # b.customer /\ a.merchant # b.merchant
    \/ /\ {a.op, b.op} \subseteq {"deposit_voucher", "redeem_voucher"}
       /\ a.user # b.user

\* neither call pays into the token account the other pays from
NoSharedTokenAccount(a, b) ==
    a.op \in {"process_purchase", "redeem_tokens"} =>
        a.merchant # b.customer /\ b.merchant # a.customer

StakersCanWithdraw ==
    (pool.initialized /\ pool.config.withdrawals_enabled) =>
        \A u \in DOMAIN stakes :
            BigLt(Zero, stakes[u].staked_amount) =>
                \A a \in {Big(1), stakes[u].staked_amount} :
                    RedeemVoucherRun(Accounts, u, a).err = "Ok"


\* C36: in every state total_voucher_staked is the sum of staked_amount over
\* the stake records, every user's staked_amount is what deposit_voucher has
\* staked for the user less what redeem_voucher has paid back, and the vault
\* holds exactly total_voucher_staked tokens (deposit_voucher and
\* redeem_voucher being the only calls that move vault tokens).
StakeAccountingBalanced ==
    /\ pool.total_voucher_staked =
          BigSum([u \in DOMAIN stakes |-> stakes[u].staked_amount], DOMAIN stakes)
    /\ \A u \in PoolUsers :
          /\ BigLeq(hist.withdrawn[u], hist.deposited[u])
          /\ StakedAmount(Accounts, u) = BigSub(hist.deposited[u], hist.withdrawn[u])
    /\ BigLeq(pool.total_voucher_staked, token_amount[Vault])
    /\ token_amount[Vault] = pool.total_voucher_staked

TwoStakesAfterWithdrawal ==
    /\ hist.withdrawn["alice"] # Zero
    /\ StakedAmount(Accounts, "alice") # Zero
    /\ StakedAmount(Accounts, "bob") # Zero

StakedAfter(user) ==
    IF user \in DOMAIN stakes' THEN stakes'[user].staked_amount ELSE Zero

OwnRedemption(user) ==
    /\ last'.op = "redeem_voucher"
    /\ last'.err = "Ok"
    /\ last'.user = user
    /\ last'.amount = BigSub(StakedAmount(Accounts, user), StakedAfter(user))
    /\ token_amount'[Vault] = BigSub(token_amount[Vault], last'.amount)
    /\ \E acct \in Holders :
          /\ TokenOwner(acct) = user
          /\ token_amount'[acct] = BigAdd(token_amount[acct], last'.amount)
          /\ \A h \in Holders \ {acct, Vault} : token_amount'[h] = token_amount[h]

\* C37: a user's staked_amount goes down only in a successful redeem_voucher
\* of that user, and tokens leave the vault only in such a call: the amount
\* of the call is taken from the stake and from the vault and added to a token
\* account the user owns, and to no other account. deposit_voucher,
\* record_yield, update_pool_config, initialize_pool and another user's
\* redeem_voucher lower no stake of the user and, but for the redemption's own
\* amount, take nothing from the vault.
StakeLeavesByOwnRedemptionOnly ==
    [][/\ \A u \in PoolUsers :
            BigLt(StakedAfter(u), StakedAmount(Accounts, u)) => OwnRedemption(u)
       /\ BigLt(token_amount'[Vault], token_amount[Vault]) =>
            \E u \in PoolUsers :
                /\ BigLt(StakedAfter(u), StakedAmount(Accounts, u))
                /\ OwnRedemption(u)
       /\ last'.op \in {"deposit_voucher", "record_yield", "update_pool_config",
                        "initialize_pool"} =>
            /\ BigLeq(token_amount[Vault], token_amount'[Vault])
            /\ \A u \in PoolUsers : BigLeq(StakedAmount(Accounts, u), StakedAfter(u))
       /\ last'.op = "redeem_voucher" =>
            \A u \in PoolUsers \ {last'.user} :
                StakedAfter(u) = StakedAmount(Accounts, u)]_vars

RedeemedBesideAnotherStake ==
    /\ last.op = "redeem_voucher"
    /\ last.err = "Ok"
    /\ last.user = "alice"
    /\ StakedAmount(Accounts, "alice") # Zero
    /\ StakedAmount(Accounts, "bob") # Zero
    /\ pool.reward_index # Zero

\* C38: in every state every stake record has user_reward_index <=
\* pool.reward_index, so the checked subtraction reward_index -
\* user_reward_index of redeem_voucher has a result.
SnapshotNeverAheadOfIndex ==
    \A u \in DOMAIN stakes :
        /\ BigLeq(stakes[u].user_reward_index, pool.reward_index)
        /\ CheckedSub(pool.reward_index, stakes[u].user_reward_index).some

JoinedBetweenTwoYields ==
    \E u \in DOMAIN stakes :
        /\ stakes[u].staked_amount # Zero
        /\ stakes[u].user_reward_index # Zero
        /\ BigLt(stakes[u].user_reward_index, pool.reward_index)

SupplyIsAllBalances == total_supply = AllTokens(token_amount)

\* C39: in every state total_supply is the sum of the balances of all token
\* accounts (customers, merchants, the vault), and so no burn_tokens call
\* fails with ArithmeticOverflow: one that fails leaves the ledger as it was
\* with another error, one whose amount is within the caller's balance and
\* within total_supply.
SupplyBacksEveryBalance ==
    /\ []SupplyIsAllBalances
    /\ [][last'.op = "burn_tokens" =>
            /\ last'.err # "ArithmeticOverflow"
            /\ last'.err = "Ok" =>
                  /\ BigLeq(last'.amount, total_supply)
                  /\ total_supply' = BigSub(total_supply, last'.amount)
                  /\ AllTokens(token_amount') =
                        BigSub(AllTokens(token_amount), last'.amount)]_vars

BurnedAfterPurchaseAndMint ==
    /\ last.op = "burn_tokens" /\ last.err = "Ok"
    /\ hist.rewards_minted # Zero
    /\ hist.admin_minted # Zero
    /\ total_supply # Zero
    /\ \E h \in Holders \ {last.holder} : token_amount[h] # Zero

ClaimedIsCredited ==
    \A u \in DOMAIN stakes : stakes[u].total_yield_claimed = hist.credited[u]

\* C40: a user's total_yield_claimed never decreases and is in every state
\* the sum of the claimable_yield amounts redeem_voucher has credited to the
\* user, a new deposit after a full withdrawal included.
YieldClaimedOnlyGrows ==
    /\ []ClaimedIsCredited
    /\ [][\A u \in DOMAIN stakes :
            BigLeq(stakes[u].total_yield_claimed, stakes'[u].total_yield_claimed)]_vars
====
